---- MODULE Spec2Model ----
(***************************************************************************)
(* Model of the interpretation engine of specgen: interpretJson            *)
(* (src/public/app.js, lines 288-533) together with the click handler of   *)
(* interpretBtn that calls it and injects the external-event simulator     *)
(* slice (src/public/app.js, lines 4-44).                                  *)
(*                                                                         *)
(* A JSON text is represented by what JSON.parse makes of it: either a     *)
(* syntax error or the parsed value.  JavaScript strings are TLA+ strings; *)
(* the value `undefined` (an absent property) is the reserved string       *)
(* Undefined, which no title, id or type of a document equals.             *)
(***************************************************************************)
EXTENDS Integers, Sequences, FiniteSets, TLC

VARIABLES
    jsonInput,                  \* the text of the #jsonInput textarea
    pc,                         \* position of the click handler / interpretJson
    calls,                      \* number of clicks so far
    data,                       \* interpretJson: the parsed document
    eventLookup,                \* interpretJson: id -> event index
    elementLookup,              \* interpretJson: id -> element index
    uniqueEventTitles,          \* interpretJson: Set of internal event titles
    uniqueExternalEventTitles,  \* interpretJson: Set of external event titles
    sliceSummaries,             \* interpretJson: the array data.slices.map builds
    result,                     \* interpretJson: { summary, slices, warnings }
    firstText,                  \* the text of the first completed call
    firstResult                 \* what interpretJson returned for firstText

vars == <<jsonInput, pc, calls, data, eventLookup, elementLookup,
          uniqueEventTitles, uniqueExternalEventTitles, sliceSummaries,
          result, firstText, firstResult>>

-----------------------------------------------------------------------------
(* Bounds of the model *)

MaxSlices == 2
MaxCalls == 3

-----------------------------------------------------------------------------
(* JavaScript values and string operations *)

Undefined == "<undefined>"

\* String(v) and `${v}`: undefined prints as the word undefined
Str(v) == IF v = Undefined THEN "undefined" ELSE v

\* truthiness of a string-or-undefined value (!v is its negation)
Truthy(v) == v # Undefined /\ v # ""

\* v || d
OrElse(v, d) == IF Truthy(v) THEN v ELSE d

\* String.prototype.includes; an undefined argument is searched as "undefined"
Includes(s, t) ==
    LET u == Str(t)
    IN \E i \in 1..(Len(s) - Len(u) + 1) : SubSeq(s, i, i + Len(u) - 1) = u

UpperChars == "ABCDEFGHIJKLMNOPQRSTUVWXYZ"
LowerChars == "abcdefghijklmnopqrstuvwxyz"

LowerMap ==
    [c \in {SubSeq(UpperChars, i, i) : i \in 1..Len(UpperChars)} |->
        LET i == CHOOSE k \in 1..Len(UpperChars) : SubSeq(UpperChars, k, k) = c
        IN SubSeq(LowerChars, i, i)]

LowerChar(c) == IF c \in DOMAIN LowerMap THEN LowerMap[c] ELSE c

RECURSIVE ToLowerCase(_)
\* String.prototype.toLowerCase
ToLowerCase(s) ==
    IF s = "" THEN ""
    ELSE LowerChar(SubSeq(s, 1, 1)) \o ToLowerCase(SubSeq(s, 2, Len(s)))

RECURSIVE TrimStart(_)
TrimStart(s) ==
    IF s # "" /\ SubSeq(s, 1, 1) = " " THEN TrimStart(SubSeq(s, 2, Len(s))) ELSE s

RECURSIVE TrimEnd(_)
TrimEnd(s) ==
    IF s # "" /\ SubSeq(s, Len(s), Len(s)) = " "
    THEN TrimEnd(SubSeq(s, 1, Len(s) - 1)) ELSE s

\* String.prototype.trim
Trim(s) == TrimEnd(TrimStart(s))

RECURSIVE RemoveAll(_, _)
\* s.replace(/pat/g, ""): every occurrence of pat, left to right, is removed
RemoveAll(s, pat) ==
    IF Len(s) < Len(pat) THEN s
    ELSE IF SubSeq(s, 1, Len(pat)) = pat
         THEN RemoveAll(SubSeq(s, Len(pat) + 1, Len(s)), pat)
         ELSE SubSeq(s, 1, 1) \o RemoveAll(SubSeq(s, 2, Len(s)), pat)

RECURSIVE Join(_, _)
\* Array.prototype.join: an undefined element is joined as the empty string
Join(seq, sep) ==
    IF seq = <<>> THEN ""
    ELSE LET h == IF Head(seq) = Undefined THEN "" ELSE Head(seq)
         IN IF Len(seq) = 1 THEN h ELSE h \o sep \o Join(Tail(seq), sep)

RECURSIVE FoldLeft(_, _, _)
FoldLeft(Op(_, _), acc, seq) ==
    IF seq = <<>> THEN acc ELSE FoldLeft(Op, Op(acc, Head(seq)), Tail(seq))

\* Array.prototype.map
Map(Op(_), seq) == [k \in 1..Len(seq) |-> Op(seq[k])]

\* Array.prototype.filter
Filter(Test(_), seq) == SelectSeq(seq, Test)

\* Array.prototype.some
Some(Test(_), seq) == \E k \in 1..Len(seq) : Test(seq[k])

\* Set.prototype.add on a Set kept in insertion order
SetAdd(set, v) == IF \E k \in 1..Len(set) : set[k] = v THEN set ELSE Append(set, v)

\* Set.prototype.has
SetHas(set, v) == \E k \in 1..Len(set) : set[k] = v

\* the constants of the interpreter
ExternalMarker == "**EXTERNAL:** "
TodoMarker == "**TODO:** "
BackRefMarker == "**⇠** "
Arrow == " ➜ "

-----------------------------------------------------------------------------
(* The document.  An element (screen, command, event, read model) is a      *)
(* record [id, title, description, context, dependencies]; a dependency is  *)
(* [elementType, type, id].  An absent description is "", an absent         *)
(* collection is <<>>: the code reads both through `|| default`.            *)

Dep(elementType, type, id) == [elementType |-> elementType, type |-> type, id |-> id]

Element(id, title, context, dependencies) ==
    [id |-> id, title |-> title, description |-> "", context |-> context,
     dependencies |-> dependencies]

Slice(title, sliceType, screens, commands, events, readmodels, specifications) ==
    [title |-> title, sliceType |-> sliceType, screens |-> screens,
     commands |-> commands, events |-> events, readmodels |-> readmodels,
     specifications |-> specifications]

\* the text: its JSON.parse outcome.  root is the kind of the parsed value;
\* slicesKind is the kind of its `slices` property, slices the list itself
Text(valid, root, slicesKind, slices) ==
    [valid |-> valid, root |-> root, slicesKind |-> slicesKind, slices |-> slices]

-----------------------------------------------------------------------------
(* Cross-reference indexes: objects used as maps, kept as the sequence of   *)
(* their entries in key-insertion order (the order of Object.values for     *)
(* keys that are not array indexes).                                        *)

LookupHas(lookup, id) == \E k \in 1..Len(lookup) : lookup[k].id = id

LookupGet(lookup, id) == lookup[CHOOSE k \in 1..Len(lookup) : lookup[k].id = id]

\* a table that keeps the first element stored under an id
LookupPutFirst(lookup, element) ==
    IF LookupHas(lookup, element.id) THEN lookup ELSE Append(lookup, element)

\* lookup[element.id] = element
LookupPut(lookup, element) ==
    IF LookupHas(lookup, element.id)
    THEN [k \in 1..Len(lookup) |->
            IF lookup[k].id = element.id THEN element ELSE lookup[k]]
    ELSE Append(lookup, element)

buildEventLookup(slices) ==
    FoldLeft(LAMBDA lookup, slice : FoldLeft(LookupPut, lookup, slice.events),
             <<>>, slices)

buildElementLookup(slices) ==
    FoldLeft(LAMBDA lookup, slice :
                FoldLeft(LookupPut,
                  FoldLeft(LookupPut,
                    FoldLeft(LookupPut,
                      FoldLeft(LookupPut, lookup, slice.commands),
                      slice.events),
                    slice.readmodels),
                  slice.screens),
             <<>>, slices)

\* names every object literal inherits from Object.prototype: reading one of
\* them from a lookup that has no own entry of that name yields the inherited
\* member, a truthy value
ObjectPrototypeKeys ==
    {"constructor", "toString", "toLocaleString", "valueOf", "hasOwnProperty",
     "isPrototypeOf", "propertyIsEnumerable", "__proto__"}

\* an inherited member read as an element: it has no id, title, description,
\* context or dependencies
PrototypeMember ==
    [id |-> Undefined, title |-> Undefined, description |-> "", context |-> Undefined,
     dependencies |-> <<>>]

\* [eventLookup[id] || elementLookup[id]].filter(e => e)
Resolve(eL, elL, id) ==
    IF LookupHas(eL, id) THEN <<LookupGet(eL, id)>>
    ELSE IF id \in ObjectPrototypeKeys THEN <<PrototypeMember>>
    ELSE IF LookupHas(elL, id) THEN <<LookupGet(elL, id)>>
    ELSE <<>>

ResolveAll(eL, elL, ids) ==
    FoldLeft(LAMBDA acc, id : acc \o Resolve(eL, elL, id), <<>>, ids)

-----------------------------------------------------------------------------
(* BDD normalizer *)

\* JSON values of fields and examples, by kind
JString(str) == [kind |-> "string", str |-> str]
JNumber(num) == [kind |-> "number", num |-> num]
JBoolean(bool) == [kind |-> "boolean", bool |-> bool]
JNull == [kind |-> "null"]
JArray(items) == [kind |-> "array", items |-> items]
\* an object as written: its members <<[key, value], ...>> in textual order
JObject(members) == [kind |-> "object", members |-> members]
\* a property the document omits
Absent == [kind |-> "absent"]

Member(key, value) == [key |-> key, value |-> value]

\* String(value); an array joins its elements with ",", null elements as ""
String(v) ==
    IF v.kind = "string" THEN v.str
    ELSE IF v.kind = "number" THEN ToString(v.num)
    ELSE IF v.kind = "boolean" THEN (IF v.bool THEN "true" ELSE "false")
    ELSE IF v.kind = "null" THEN "null"
    ELSE IF v.kind = "absent" THEN "undefined"
    ELSE IF v.kind = "object" THEN "[object Object]"
    ELSE Join([k \in 1..Len(v.items) |->
                 IF v.items[k].kind = "string" THEN v.items[k].str
                 ELSE IF v.items[k].kind = "number" THEN ToString(v.items[k].num)
                 ELSE IF v.items[k].kind = "boolean"
                      THEN (IF v.items[k].bool THEN "true" ELSE "false")
                 ELSE IF v.items[k].kind = "object" THEN "[object Object]"
                 ELSE ""], ",")

Digits == <<"0", "1", "2", "3", "4", "5", "6", "7", "8", "9">>

IsDigit(c) == \E d \in 1..10 : Digits[d] = c

DigitValue(c) == (CHOOSE d \in 1..10 : Digits[d] = c) - 1

\* the array index a property key denotes (a canonical numeric string; keys
\* of up to nine digits, all below the limit 2^32 - 1 of an index), or -1
ArrayIndex(key) ==
    IF /\ Len(key) > 0
       /\ Len(key) <= 9
       /\ \A k \in 1..Len(key) : IsDigit(SubSeq(key, k, k))
       /\ (Len(key) = 1 \/ SubSeq(key, 1, 1) # "0")
    THEN FoldLeft(LAMBDA acc, k : 10 * acc + DigitValue(SubSeq(key, k, k)),
                  0, [k \in 1..Len(key) |-> k])
    ELSE -1

\* the properties JSON.parse creates from the members of an object: a repeated
\* key keeps its first position and takes its last value
ParsedMembers(members) ==
    FoldLeft(LAMBDA acc, m :
                IF \E k \in 1..Len(acc) : acc[k].key = m.key
                THEN [k \in 1..Len(acc) |-> IF acc[k].key = m.key THEN m ELSE acc[k]]
                ELSE Append(acc, m),
             <<>>, members)

RECURSIVE InsertByKey(_, _)
InsertByKey(sorted, m) ==
    IF sorted = <<>> THEN <<m>>
    ELSE IF ArrayIndex(sorted[Len(sorted)].key) <= ArrayIndex(m.key) THEN Append(sorted, m)
    ELSE Append(InsertByKey(SubSeq(sorted, 1, Len(sorted) - 1), m), sorted[Len(sorted)])

\* Object.entries: array-index keys in ascending numeric order, then the other
\* keys in creation order
ObjectEntries(members) ==
    LET own == ParsedMembers(members)
    IN FoldLeft(InsertByKey, <<>>, SelectSeq(own, LAMBDA m : ArrayIndex(m.key) >= 0))
       \o SelectSeq(own, LAMBDA m : ArrayIndex(m.key) < 0)

\* a field is [name, example]: name a string or Undefined, example a JSON value
Field(name, example) == [name |-> name, example |-> example]

\* formatFields that keeps the double quotes of the examples
formatFieldsQuoted(fields) ==
    IF fields = <<>> THEN "(none)"
    ELSE Join(
           Filter(LAMBDA s : Len(s) > 0,
             Map(LAMBDA field :
                   IF ~Truthy(field.name) THEN ""
                   ELSE field.name \o "=" \o
                        (IF field.example.kind \notin {"absent", "null"}
                         THEN String(field.example) ELSE ""),
                 fields)),
           ", ")

formatFields(fields) ==
    IF fields = <<>> THEN "(none)"
    ELSE Join(
           Filter(LAMBDA s : Len(s) > 0,
             Map(LAMBDA field :
                   IF ~Truthy(field.name) THEN ""
                   ELSE field.name \o "=" \o
                        (IF field.example.kind \notin {"absent", "null"}
                         THEN RemoveAll(String(field.example), "\"") ELSE ""),
                 fields)),
           ", ")

\* an example is a JSON value
formatReadModelExamples(examples) ==
    IF examples = <<>> THEN "(none)"
    ELSE Join(
           Map(LAMBDA example :
                 IF example.kind # "object"
                 THEN "(" \o RemoveAll(String(example), "\"") \o ")"
                 ELSE "(" \o
                      Join(Map(LAMBDA en : en.key \o "=" \o RemoveAll(String(en.value), "\""),
                               ObjectEntries(example.members)), ", ")
                      \o ")",
               examples),
           "; ")

ConflictWarning(spec, step) ==
    "BDD Specification \"" \o Str(spec.title) \o "\" step '" \o Str(step.title)
    \o "' has both 'fields' and 'examples'. Using 'examples' only."

\* one step of mapSteps: the rendered step
mapStep(step) ==
    [title |-> step.title, type |-> step.type,
     fields |-> IF step.examples # <<>>
                THEN formatReadModelExamples(step.examples)
                ELSE formatFields(step.fields)]

\* mapSteps warning for every step that has examples, with fields or not
StepWarningsAnyExamples(spec, steps) ==
    FoldLeft(LAMBDA acc, step :
                IF step.examples # <<>>
                THEN Append(acc, ConflictWarning(spec, step)) ELSE acc,
             <<>>, steps)

\* the warnings mapSteps pushes for a step list
StepWarnings(spec, steps) ==
    FoldLeft(LAMBDA acc, step :
                IF step.examples # <<>> /\ step.fields # <<>>
                THEN Append(acc, ConflictWarning(spec, step)) ELSE acc,
             <<>>, steps)

bddTest(spec) ==
    [title |-> spec.title,
     comments |-> Map(LAMBDA c : c.description, spec.comments),
     given |-> Map(mapStep, spec.given),
     when |-> Map(mapStep, spec.when),
     then |-> Map(mapStep, spec.then)]

BddWarnings(specs) ==
    FoldLeft(LAMBDA acc, spec :
                acc \o StepWarnings(spec, spec.given) \o StepWarnings(spec, spec.when)
                    \o StepWarnings(spec, spec.then),
             <<>>, specs)

-----------------------------------------------------------------------------
(* Slice flow synthesizer: the body of data.slices.map in interpretJson *)

FlowStep(type, title, description) ==
    [type |-> type, title |-> title, description |-> description]

\* (slice.events || []).map(e => ({ ...e, isExternal, title }))
processedEvents(slice) ==
    Map(LAMBDA e :
          LET isExternal == e.context = "EXTERNAL"
          IN [id |-> e.id,
              title |-> IF isExternal THEN ExternalMarker \o Str(e.title) ELSE e.title,
              description |-> e.description, context |-> e.context,
              dependencies |-> e.dependencies, isExternal |-> isExternal],
        slice.events)

\* the title Sets keyed by the id of the event instead of its title
AddEventTitlesById(set, slice, external) ==
    FoldLeft(LAMBDA acc, e :
                IF (e.context = "EXTERNAL") = external THEN SetAdd(acc, e.id) ELSE acc,
             set, slice.events)

\* the two title Sets after the events of a slice have been scanned
AddEventTitles(set, slice, external) ==
    FoldLeft(LAMBDA acc, e :
                IF (e.context = "EXTERNAL") = external THEN SetAdd(acc, e.title) ELSE acc,
             set, slice.events)

primaryReadModel(slice) == slice.readmodels[1]

\* ids the read model declares as EVENT dependencies of one direction
DeclaredEventIds(rm, direction) ==
    FoldLeft(LAMBDA acc, dep :
                IF dep.elementType = "EVENT" /\ dep.type = direction
                THEN SetAdd(acc, dep.id) ELSE acc,
             <<>>, rm.dependencies)

\* the inbound ids without the reverse lookup through the event index
inboundEventIdsDeclared(rm, eL) == DeclaredEventIds(rm, "INBOUND")

\* plus every event of the index that points OUTBOUND at the read model
inboundEventIds(rm, eL) ==
    FoldLeft(LAMBDA acc, event :
                FoldLeft(LAMBDA acc2, dep :
                            IF dep.elementType = "READMODEL" /\ dep.id = rm.id
                               /\ dep.type = "OUTBOUND"
                            THEN SetAdd(acc2, event.id) ELSE acc2,
                         acc, event.dependencies),
             DeclaredEventIds(rm, "INBOUND"), eL)

outboundEventIds(rm) == DeclaredEventIds(rm, "OUTBOUND")

inboundEvents(slice, eL, elL) ==
    ResolveAll(eL, elL, inboundEventIds(primaryReadModel(slice), eL))

outboundEvents(slice, eL, elL) ==
    ResolveAll(eL, elL, outboundEventIds(primaryReadModel(slice)))

\* usedScreenIds is a fresh, empty Set when the filter runs
outboundScreens(slice) ==
    LET rm == primaryReadModel(slice)
        usedScreenIds == <<>>
    IN Filter(LAMBDA s :
                ~SetHas(usedScreenIds, s.id)
                /\ Some(LAMBDA d : d.elementType = "READMODEL"
                                   /\ (d.id = rm.id \/ d.type = "INBOUND"),
                        s.dependencies),
              slice.screens)

HasView(slice) == slice.sliceType = "STATE_VIEW" /\ slice.readmodels # <<>>

\* the flag taken from the declared ids, resolved or not
isTodoListProjectionDeclared(slice, eL, elL) ==
    /\ HasView(slice)
    /\ Len(inboundEventIds(primaryReadModel(slice), eL)) > 0
    /\ Len(outboundEventIds(primaryReadModel(slice))) > 0

isTodoListProjection(slice, eL, elL) ==
    /\ HasView(slice)
    /\ Len(inboundEvents(slice, eL, elL)) > 0
    /\ Len(outboundEvents(slice, eL, elL)) > 0

todoEvents(slice, eL, elL) ==
    IF HasView(slice) THEN outboundEvents(slice, eL, elL) ELSE <<>>

Titles(seq) == Map(LAMBDA e : e.title, seq)

TodoWarning(rm, inb, outb) ==
    "ReadModel \"" \o Str(rm.title) \o "\" is a **To-Do List Projection** with "
    \o ToString(Len(inb)) \o " ADD event(s): [" \o Join(Titles(inb), ", ") \o "] and "
    \o ToString(Len(outb)) \o " REMOVE/DONE event(s): [" \o Join(Titles(outb), ", ") \o "]"

\* the warning without the title of the slice
NoReadModelWarningUntitled(slice) == "STATE_VIEW slice has no ReadModel defined."

NoReadModelWarning(slice) ==
    "STATE_VIEW slice \"" \o Str(slice.title) \o "\" has no ReadModel defined."

NoInboundWarning(slice, rm) ==
    "STATE_VIEW slice \"" \o Str(slice.title) \o "\" ReadModel \"" \o Str(rm.title)
    \o "\" has no inbound events."

UnhandledTypeWarning(slice) ==
    "Slice \"" \o Str(slice.title) \o "\" has unhandled sliceType: " \o slice.sliceType

\* STATE_VIEW branch: the flow
ViewFlow(slice, eL, elL) ==
    IF slice.readmodels = <<>> THEN <<>>
    ELSE LET rm == primaryReadModel(slice)
             inb == inboundEvents(slice, eL, elL)
             todo == isTodoListProjection(slice, eL, elL)
         IN Map(LAMBDA e : FlowStep("EVENT", e.title,
                    OrElse(e.description, "Event that populates the read model")), inb)
            \o <<FlowStep("READMODEL",
                    IF todo THEN TodoMarker \o Str(rm.title) ELSE rm.title,
                    IF todo THEN "State projection / **TODO list (Two-event pattern)**"
                            ELSE "State projection / User view")>>
            \o Map(LAMBDA s : FlowStep("SCREEN", s.title, OrElse(s.description, "User view")),
                   outboundScreens(slice))
            \o (IF todo
                THEN Map(LAMBDA e : FlowStep("EVENT", e.title,
                            "Event that removes/completes items from " \o Str(rm.title)),
                         todoEvents(slice, eL, elL))
                ELSE <<>>)

\* the warnings with the inbound warning pushed when either resolved list is
\* empty
ViewWarningsAnyEmpty(slice, eL, elL) ==
    IF slice.readmodels = <<>> THEN <<NoReadModelWarning(slice)>>
    ELSE LET rm == primaryReadModel(slice)
             inb == inboundEvents(slice, eL, elL)
         IN (IF isTodoListProjection(slice, eL, elL)
             THEN <<TodoWarning(rm, inb, todoEvents(slice, eL, elL))>> ELSE <<>>)
            \o (IF Len(inb) = 0 \/ Len(outboundEvents(slice, eL, elL)) = 0
                THEN <<NoInboundWarning(slice, rm)>> ELSE <<>>)

\* STATE_VIEW branch: the warnings it pushes, in order
ViewWarnings(slice, eL, elL) ==
    IF slice.readmodels = <<>> THEN <<NoReadModelWarning(slice)>>
    ELSE LET rm == primaryReadModel(slice)
             inb == inboundEvents(slice, eL, elL)
         IN (IF isTodoListProjection(slice, eL, elL)
             THEN <<TodoWarning(rm, inb, todoEvents(slice, eL, elL))>> ELSE <<>>)
            \o (IF Len(inb) = 0 THEN <<NoInboundWarning(slice, rm)>> ELSE <<>>)

NullDetails == [null |-> TRUE]

\* a || "(none)" for a joined title list
OrNone(s) == IF s = "" THEN "(none)" ELSE s

readmodelDetails(slice, eL, elL) ==
    IF ~HasView(slice) THEN NullDetails
    ELSE LET inb == inboundEvents(slice, eL, elL)
             outb == outboundEvents(slice, eL, elL)
         IN [null |-> FALSE, exists |-> TRUE,
             inboundEvents |-> OrNone(Join(Titles(inb), ", ")),
             outboundEvents |-> OrNone(Join(Titles(outb), ", ")),
             eventsSubscribedTo |-> OrNone(Join(Titles(inb), ", ")),
             consumer |-> OrNone(Join(Titles(outboundScreens(slice)), ", ")),
             todoList |-> isTodoListProjection(slice, eL, elL),
             totalInboundEvents |-> Len(inb),
             totalOutboundEvents |-> Len(outb)]

\* title.toLowerCase().includes(...) of the STATE_CHANGE completion test
CommandCompletes(title) ==
    LET l == ToLowerCase(title)
    IN Includes(l, "prepared") \/ Includes(l, "mark") \/ Includes(l, "complete")

\* the event test with the words of the command test
EventCompletesLikeCommand(title) ==
    LET l == ToLowerCase(title)
    IN Includes(l, "prepared") \/ Includes(l, "mark") \/ Includes(l, "complete")

EventCompletes(title) ==
    LET l == ToLowerCase(title)
    IN Includes(l, "prepared") \/ Includes(l, "completed")

\* xs.some(x => Test(x.title)) reaches an undefined title before any match:
\* undefined.toLowerCase() is a TypeError
SomeThrows(Test(_), titles) ==
    \E k \in 1..Len(titles) :
        /\ titles[k] = Undefined
        /\ \A j \in 1..(k - 1) : titles[j] # Undefined /\ ~Test(titles[j])

SomeHolds(Test(_), titles) ==
    \E k \in 1..Len(titles) : titles[k] # Undefined /\ Test(titles[k])

isCompletionSlice(slice) ==
    \/ SomeHolds(CommandCompletes, Titles(slice.commands))
    \/ SomeHolds(EventCompletes, Titles(processedEvents(slice)))

\* the STATE_CHANGE branch raises a TypeError
ChangeThrows(slice) ==
    LET cmds == Titles(slice.commands)
        evs == Titles(processedEvents(slice))
    IN \/ SomeThrows(CommandCompletes, cmds)
       \/ ~SomeHolds(CommandCompletes, cmds) /\ SomeThrows(EventCompletes, evs)
       \/ isCompletionSlice(slice) /\ \E k \in 1..Len(evs) : evs[k] = Undefined

ChangeFlow(slice) ==
    LET completion == isCompletionSlice(slice) IN
    Map(LAMBDA s : FlowStep("SCREEN", s.title, OrElse(s.description, "User interface")),
        slice.screens)
    \o Map(LAMBDA c : FlowStep("COMMAND", c.title, OrElse(c.description, "Command executed")),
           slice.commands)
    \o Map(LAMBDA e :
             IF completion /\ EventCompletes(e.title)
             THEN FlowStep("EVENT", "**" \o e.title \o " (Completes To-Do List Item)**",
                           "Completion event - marks item as done")
             ELSE FlowStep("EVENT", e.title, OrElse(e.description, "Event triggered")),
           processedEvents(slice))

\* the else branch building the flow of a state-change slice
FallbackFlowAsChange(slice) == ChangeFlow(slice)

\* the else branch: every other sliceType
FallbackFlow(slice) ==
    Map(LAMBDA s : FlowStep("SCREEN", s.title, OrElse(s.description, "")), slice.screens)
    \o Map(LAMBDA c : FlowStep("COMMAND", c.title, OrElse(c.description, "")), slice.commands)
    \o Map(LAMBDA e : FlowStep("EVENT", e.title, OrElse(e.description, "")),
           processedEvents(slice))

Flow(slice, eL, elL) ==
    IF slice.sliceType = "STATE_VIEW" THEN ViewFlow(slice, eL, elL)
    ELSE IF slice.sliceType = "STATE_CHANGE" THEN ChangeFlow(slice)
    ELSE FallbackFlow(slice)

FlowWarnings(slice, eL, elL) ==
    IF slice.sliceType = "STATE_VIEW" THEN ViewWarnings(slice, eL, elL)
    ELSE IF slice.sliceType = "STATE_CHANGE" THEN <<>>
    ELSE IF Truthy(slice.sliceType) THEN <<UnhandledTypeWarning(slice)>>
    ELSE <<>>

-----------------------------------------------------------------------------
(* Visual flow composer *)

\* the flow steps kept by a first-occurrence filter keyed by Key(f)
FirstOccurrences(Key(_), Dropped(_), flow) ==
    FoldLeft(LAMBDA acc, f :
                IF Dropped(f) \/ ~Truthy(f.title) \/ SetHas(acc.seen, Key(f)) THEN acc
                ELSE [seen |-> Append(acc.seen, Key(f)), kept |-> Append(acc.kept, f.title)],
             [seen |-> <<>>, kept |-> <<>>], flow).kept

\* the default composer keyed on the type and the title of a step
DefaultElementsByType(flow) ==
    FirstOccurrences(LAMBDA f : f.type \o ":" \o Str(f.title), LAMBDA f : FALSE, flow)

\* default composer: first occurrence per title
DefaultElements(flow) ==
    FirstOccurrences(LAMBDA f : f.title, LAMBDA f : FALSE, flow)

\* f is a completion event: todoEvents.some(e => f.title.includes(e.title))
isCompletionEvent(f, todo) == Some(LAMBDA e : Includes(f.title, e.title), todo)

\* two-event pivot: the forward list
forwardElements(flow, todo) ==
    FirstOccurrences(LAMBDA f : f.type \o ":" \o Str(f.title),
                     LAMBDA f : isCompletionEvent(f, todo), flow)

\* forwardElements.findIndex(...), 1-based; 0 when nothing matches
rmIndex(forward, rmTitle) ==
    LET hit(t) == Includes(t, TodoMarker \o Str(rmTitle)) \/ Includes(t, rmTitle)
    IN IF \E k \in 1..Len(forward) : hit(forward[k])
       THEN CHOOSE k \in 1..Len(forward) :
                hit(forward[k]) /\ \A j \in 1..(k - 1) : ~hit(forward[j])
       ELSE 0

completionEventTitles(todo) == Join(Titles(todo), ", ")

BackRefToken(todo) == BackRefMarker \o completionEventTitles(todo)

PivotElements(flow, todo, rmTitle) ==
    LET forward == forwardElements(flow, todo)
        i == rmIndex(forward, rmTitle)
    IN IF i # 0 /\ completionEventTitles(todo) # ""
       THEN SubSeq(forward, 1, i) \o <<BackRefToken(todo)>>
            \o SubSeq(forward, i + 1, Len(forward))
       ELSE forward

\* the two-event pivot path is taken
PivotPath(slice, eL, elL) ==
    isTodoListProjection(slice, eL, elL) /\ Len(todoEvents(slice, eL, elL)) > 0

\* f.title.includes(...) on a flow step without a title is a TypeError
PivotThrows(slice, eL, elL) ==
    /\ PivotPath(slice, eL, elL)
    /\ LET flow == Flow(slice, eL, elL)
       IN \E k \in 1..Len(flow) : flow[k].title = Undefined

\* the array that is joined into visualFlow
VisualElements(slice, eL, elL) ==
    LET flow == Flow(slice, eL, elL)
    IN IF PivotPath(slice, eL, elL)
       THEN PivotElements(flow, todoEvents(slice, eL, elL), primaryReadModel(slice).title)
       ELSE DefaultElements(flow)

-----------------------------------------------------------------------------
(* The enriched slice and the summary *)

Described(seq, default) ==
    Map(LAMBDA x : [title |-> x.title, description |-> OrElse(x.description, default)], seq)

\* the index of a slice left 0-based
SliceIndexZeroBased(index) == index

\* index: index + 1
SliceIndex(index) == index + 1

sliceObj(slice, index, eL, elL) ==
    LET elements == VisualElements(slice, eL, elL)
        events == processedEvents(slice)
    IN
    [index |-> SliceIndex(index), title |-> slice.title, sliceType |-> slice.sliceType,
     flow |-> Flow(slice, eL, elL),
     visualElements |-> elements,
     visualFlow |-> Join(elements, Arrow),
     commands |-> Described(slice.commands, "Command executed"),
     events |-> Described(Filter(LAMBDA e : ~e.isExternal, events), "Event triggered"),
     externalEvents |-> Described(Filter(LAMBDA e : e.isExternal, events),
                                  "External event received"),
     screens |-> Described(slice.screens, "User interface"),
     readmodels |-> Described(slice.readmodels, "State projection"),
     readmodelDetails |-> readmodelDetails(slice, eL, elL),
     bddTests |-> Map(bddTest, slice.specifications)]

\* the map callback raises a TypeError for this slice
SliceThrows(slice, eL, elL) ==
    \/ slice.sliceType = "STATE_CHANGE" /\ ChangeThrows(slice)
    \/ PivotThrows(slice, eL, elL)

\* the callback mapping the specifications before it synthesizes the flow
SliceWarningsBddFirst(slice, eL, elL) ==
    BddWarnings(slice.specifications) \o FlowWarnings(slice, eL, elL)

\* what the callback pushes on result.warnings for this slice, in order
SliceWarnings(slice, eL, elL) ==
    FlowWarnings(slice, eL, elL) \o BddWarnings(slice.specifications)

Sum(Op(_), seq) == FoldLeft(LAMBDA acc, x : acc + Op(x), 0, seq)

\* the screen ids collected in an array instead of a Set
uniqueScreenIdsRepeated(slices) ==
    FoldLeft(LAMBDA acc, slice :
                FoldLeft(LAMBDA acc2, screen : Append(acc2, screen.id), acc, slice.screens),
             <<>>, slices)

uniqueScreenIds(slices) ==
    FoldLeft(LAMBDA acc, slice :
                FoldLeft(LAMBDA acc2, screen : SetAdd(acc2, screen.id), acc, slice.screens),
             <<>>, slices)

Summary(slices, internalTitles, externalTitles, summaries) ==
    [empty |-> FALSE,
     totalSlices |-> Len(slices),
     totalCommands |-> Sum(LAMBDA s : Len(s.commands), slices),
     totalEvents |-> Len(internalTitles),
     totalExternalEvents |-> Len(externalTitles),
     totalScreens |-> Len(uniqueScreenIds(slices)),
     totalReadModels |-> Sum(LAMBDA s : Len(s.readmodels), slices),
     totalSpecifications |-> Sum(LAMBDA s : Len(s.specifications), slices),
     sliceDetails |-> summaries]

\* summary: {}
EmptySummary == [empty |-> TRUE]

\* a result object that starts from the warnings of the previous call
NewResultKeepsWarnings(previous) ==
    [summary |-> EmptySummary, slices |-> <<>>, warnings |-> previous.warnings]

\* const result = { summary: {}, slices: [], warnings: [] }
NewResult(previous) == [summary |-> EmptySummary, slices |-> <<>>, warnings |-> <<>>]

\* before the first click the handler holds no result
NoResult == [summary |-> EmptySummary, slices |-> <<>>, warnings |-> <<>>]

-----------------------------------------------------------------------------
(* Simulator injection of the click handler *)

\* the cleaning without its trim()
CleanTitleUntrimmed(title) == RemoveAll(title, ExternalMarker)

\* e.title.replace(/\*\*EXTERNAL:\*\* /g, "").trim()
CleanTitle(title) == Trim(RemoveAll(title, ExternalMarker))

simulatorTitles(slices) ==
    FoldLeft(LAMBDA acc, slice :
                FoldLeft(LAMBDA acc2, e : SetAdd(acc2, CleanTitle(e.title)),
                         acc, slice.externalEvents),
             <<>>, slices)

simulatorSlice(slices) ==
    [index |-> Len(slices) + 1,
     title |-> "SIMULATION OF EXTERNAL EVENTS",
     sliceType |-> "STATE_CHANGE (Automation)",
     visualFlow |-> "**EXTERNAL EVENT** → **SimulateExternalEventCommand** → **Domain Command** → **Domain Event**",
     screens |-> <<[title |-> "External Event Console UI"]>>,
     commands |-> <<[title |-> "SimulateExternalEventCommand"]>>,
     events |-> <<>>,
     externalEvents |-> Map(LAMBDA t : [title |-> t], simulatorTitles(slices)),
     readmodels |-> <<>>,
     bddTests |-> <<>>,
     readmodelDetails |-> NullDetails,
     flow |-> <<>>]

\* result.slices.sort((a, b) => a.index - b.index): a stable sort
RECURSIVE InsertByIndex(_, _)
InsertByIndex(sorted, x) ==
    IF sorted = <<>> THEN <<x>>
    ELSE IF sorted[Len(sorted)].index <= x.index THEN Append(sorted, x)
    ELSE Append(InsertByIndex(SubSeq(sorted, 1, Len(sorted) - 1), x), sorted[Len(sorted)])

SortByIndex(slices) == FoldLeft(InsertByIndex, <<>>, slices)

-----------------------------------------------------------------------------
(* The state machine *)

NoData == [parsed |-> FALSE, slices |-> <<>>]
NoLookup == [built |-> FALSE, entries |-> <<>>]
NoCall == [set |-> FALSE]

\* interpretBtn is clicked: the handler reads the text and enters interpretJson,
\* whose activation starts with a fresh result and no other local yet
Click ==
    /\ pc = "idle"
    /\ pc' = "parse"
    /\ calls' = calls + 1
    /\ result' = NewResult(result)
    /\ data' = NoData
    /\ eventLookup' = NoLookup
    /\ elementLookup' = NoLookup
    /\ uniqueEventTitles' = <<>>
    /\ uniqueExternalEventTitles' = <<>>
    /\ sliceSummaries' = <<>>
    /\ UNCHANGED <<jsonInput, firstText, firstResult>>

\* interpretJson returns r: remember the first completed call
Returns(r) ==
    /\ pc' = "returned"
    /\ result' = r
    /\ firstText' = IF firstText.set THEN firstText ELSE [set |-> TRUE, text |-> jsonInput]
    /\ firstResult' = IF firstText.set THEN firstResult ELSE r

\* reading data.slices of the parsed value raises a TypeError
GuardThrows(text) == text.valid /\ text.root = "null"

\* the guard without its Array.isArray test: any truthy slices property passes
GuardPassesTruthy(text) ==
    text.valid /\ text.root = "object"
    /\ text.slicesKind \in {"list", "object", "string", "number", "boolean"}

\* the parse/shape guard lets the document through
GuardPasses(text) == text.valid /\ text.root = "object" /\ text.slicesKind = "list"

GuardWarning(text) ==
    IF ~text.valid THEN "Invalid JSON: Unexpected token"
    ELSE "Missing 'slices' array in root object."

\* JSON.parse and the shape guard
ParseGuard ==
    /\ pc = "parse"
    /\ IF GuardThrows(jsonInput)
       THEN /\ pc' = "raised"
            /\ UNCHANGED <<result, data, firstText, firstResult>>
       ELSE IF GuardPasses(jsonInput)
       THEN /\ pc' = "index"
            /\ data' = [parsed |-> TRUE, slices |-> jsonInput.slices]
            /\ UNCHANGED <<result, firstText, firstResult>>
       ELSE /\ Returns([result EXCEPT !.warnings = Append(@, GuardWarning(jsonInput))])
            /\ UNCHANGED data
    /\ UNCHANGED <<jsonInput, calls, eventLookup, elementLookup, uniqueEventTitles,
                   uniqueExternalEventTitles, sliceSummaries>>

\* the lookup tables and the two title Sets are allocated
BuildLookups ==
    /\ pc = "index"
    /\ pc' = "slices"
    /\ eventLookup' = [built |-> TRUE, entries |-> buildEventLookup(data.slices)]
    /\ elementLookup' = [built |-> TRUE, entries |-> buildElementLookup(data.slices)]
    /\ uniqueEventTitles' = <<>>
    /\ uniqueExternalEventTitles' = <<>>
    /\ UNCHANGED <<jsonInput, calls, data, sliceSummaries, result, firstText, firstResult>>

\* one call of the data.slices.map callback
ProcessSlice ==
    /\ pc = "slices"
    /\ Len(sliceSummaries) < Len(data.slices)
    /\ LET index == Len(sliceSummaries)
           slice == data.slices[index + 1]
           eL == eventLookup.entries
           elL == elementLookup.entries
           obj == sliceObj(slice, index, eL, elL)
       IN IF SliceThrows(slice, eL, elL)
          THEN /\ pc' = "raised"
               /\ UNCHANGED <<uniqueEventTitles, uniqueExternalEventTitles,
                              sliceSummaries, result>>
          ELSE /\ pc' = pc
               /\ uniqueEventTitles' = AddEventTitles(uniqueEventTitles, slice, FALSE)
               /\ uniqueExternalEventTitles' =
                      AddEventTitles(uniqueExternalEventTitles, slice, TRUE)
               /\ result' = [result EXCEPT
                                !.warnings = @ \o SliceWarnings(slice, eL, elL),
                                !.slices = Append(@, obj)]
               /\ sliceSummaries' = Append(sliceSummaries, obj)
    /\ UNCHANGED <<jsonInput, calls, data, eventLookup, elementLookup,
                   firstText, firstResult>>

\* the global summary; interpretJson returns
Summarize ==
    /\ pc = "slices"
    /\ Len(sliceSummaries) = Len(data.slices)
    /\ Returns([result EXCEPT !.summary =
                    Summary(data.slices, uniqueEventTitles, uniqueExternalEventTitles,
                            sliceSummaries)])
    /\ UNCHANGED <<jsonInput, calls, data, eventLookup, elementLookup, uniqueEventTitles,
                   uniqueExternalEventTitles, sliceSummaries>>

\* the handler appends the simulator slice when an external event exists
InjectSimulator ==
    /\ pc = "returned"
    /\ pc' = "injected"
    /\ result' = IF Len(simulatorTitles(result.slices)) > 0
                 THEN [result EXCEPT !.slices = Append(@, simulatorSlice(result.slices))]
                 ELSE result
    /\ UNCHANGED <<jsonInput, calls, data, eventLookup, elementLookup, uniqueEventTitles,
                   uniqueExternalEventTitles, sliceSummaries, firstText, firstResult>>

\* slice.sliceType.toLowerCase() of the slice details raises a TypeError
RenderThrows(slices) == \E k \in 1..Len(slices) : slices[k].sliceType = Undefined

\* the handler renders: the system flow sorts result.slices in place
Render ==
    /\ pc = "injected"
    /\ result' = IF Len(result.slices) > 1
                 THEN [result EXCEPT !.slices = SortByIndex(@)] ELSE result
    /\ pc' = IF RenderThrows(result.slices) THEN "renderRaised" ELSE "done"
    /\ UNCHANGED <<jsonInput, calls, data, eventLookup, elementLookup, uniqueEventTitles,
                   uniqueExternalEventTitles, sliceSummaries, firstText, firstResult>>

Next == Click \/ ParseGuard \/ BuildLookups \/ ProcessSlice \/ Summarize
        \/ InjectSimulator \/ Render

-----------------------------------------------------------------------------
(* Input texts *)

SeqsUpTo(S, n) == UNION {[1..k -> S] : k \in 0..n}

\* texts the guard stops: a syntax error, roots that are no object, and objects
\* whose slices property is absent or no list
GuardTexts ==
    {Text(FALSE, "none", "none", <<>>)}
    \cup {Text(TRUE, k, "none", <<>>) : k \in {"null", "number", "string", "boolean", "array"}}
    \cup {Text(TRUE, "object", k, <<>>) :
            k \in {"absent", "null", "number", "string", "boolean", "object"}}

Documents(slices) == {Text(TRUE, "object", "list", s) : s \in SeqsUpTo(slices, MaxSlices)}

InitWith(texts) ==
    /\ jsonInput \in texts
    /\ pc = "idle"
    /\ calls = 0
    /\ data = NoData
    /\ eventLookup = NoLookup
    /\ elementLookup = NoLookup
    /\ uniqueEventTitles = <<>>
    /\ uniqueExternalEventTitles = <<>>
    /\ sliceSummaries = <<>>
    /\ result = NoResult
    /\ firstText = NoCall
    /\ firstResult = NoResult

-----------------------------------------------------------------------------
(* Documents whose slices and elements omit collections, titles and type *)

RobustContents ==
    {<<<<>>, <<>>>>,
     <<<<Element("c1", "Mark Order Prepared", "", <<>>)>>,
       <<Element("e1", "Order Prepared", "", <<>>)>>>>,
     <<<<Element("c1", Undefined, "", <<>>)>>, <<>>>>,
     <<<<>>, <<Element("e1", Undefined, "", <<>>)>>>>}

RobustSlices ==
    {Slice(IF c[1] = <<>> THEN Undefined ELSE "Prepare Order", t, <<>>, c[1], c[2], <<>>, <<>>) :
        t \in {"STATE_CHANGE", "STATE_VIEW", Undefined}, c \in RobustContents}

Init == InitWith(GuardTexts \cup Documents(RobustSlices))

Spec == Init /\ [][Next]_vars

-----------------------------------------------------------------------------
(* Documents of internal and external events: one title carried by an       *)
(* internal and by an external event, by events of different ids, a title   *)
(* that differs from it by white space only, one id carried by two titles   *)

InternalPool == {Element("e1", "A", "", <<>>), Element("e2", "A", "", <<>>)}

ExternalPool ==
    {Element("e3", "A", "EXTERNAL", <<>>),
     Element("e4", " A", "EXTERNAL", <<>>),
     Element("e3", "B", "EXTERNAL", <<>>)}

EventLists ==
    {<<>>} \cup {<<e>> : e \in InternalPool \cup ExternalPool}
    \cup {<<x, y>> : x \in ExternalPool, y \in ExternalPool}

EventSlices ==
    {Slice("Import Orders", "STATE_CHANGE", <<>>, <<>>, evs, <<>>, <<>>) : evs \in EventLists}

InitEvents == InitWith(GuardTexts \cup Documents(EventSlices))

SpecEvents == InitEvents /\ [][Next]_vars

-----------------------------------------------------------------------------
(* Documents of state-view slices: a read model "Orders" fed by e1 and      *)
(* emptied by e2, whose events are declared by state-change slices          *)

ReverseLink == Dep("READMODEL", "OUTBOUND", "r1")

ChangeEvents ==
    {<<Element("e1", "Order Placed", "", <<>>), Element("e2", "Order Prepared", "", <<>>)>>,
     <<Element("e1", "Order Placed", "", <<>>), Element("e2", "Order", "", <<>>)>>,
     <<Element("e1", "Order List", "", <<ReverseLink>>),
       Element("e2", "Order Prepared", "", <<>>)>>,
     <<Element("e1", "Order Placed", "", <<>>),
       Element("e2", "Order Prepared", "", <<ReverseLink>>)>>,
     <<Element("e1", "Order List", "", <<ReverseLink>>),
       Element("e1", "Order Placed", "", <<>>),
       Element("e2", "Order Prepared", "", <<>>)>>}

ReadModelDeps ==
    {<<>>,
     <<Dep("EVENT", "INBOUND", "e1")>>,
     <<Dep("EVENT", "INBOUND", "e1"), Dep("EVENT", "OUTBOUND", "e2")>>,
     <<Dep("EVENT", "OUTBOUND", "e2")>>,
     <<Dep("EVENT", "INBOUND", "e1"), Dep("EVENT", "OUTBOUND", "e9")>>}

ReadModelLists ==
    {<<>>} \cup {<<Element("r1", "Orders", "", deps)>> : deps \in ReadModelDeps}

ScreenLists ==
    {<<>>, <<Element("s1", "Order List", "", <<Dep("READMODEL", "INBOUND", "r1")>>)>>}

ViewSlices ==
    {Slice("Prepare Order", "STATE_CHANGE", <<>>,
           <<Element("c1", "Prepare Order", "", <<>>)>>, evs, <<>>, <<>>) :
        evs \in ChangeEvents}
    \cup
    {Slice(IF screens = <<>> THEN "Orders To Prepare" ELSE "Order Board", "STATE_VIEW",
           screens, <<>>, <<>>, rms, <<>>) :
        screens \in ScreenLists, rms \in ReadModelLists}

InitView == InitWith(GuardTexts \cup Documents(ViewSlices))

SpecView == InitView /\ [][Next]_vars

-----------------------------------------------------------------------------
(* Documents for the default composer: steps that share a title across      *)
(* types, steps with an empty title and steps without a title               *)

ComposerScreens ==
    {<<>>} \cup {<<Element("s1", t, "", <<Dep("READMODEL", "INBOUND", "r1")>>)>> :
                    t \in {"A", "", Undefined}}

ComposerSteps ==
    {<<<<Element("c1", "B", "", <<>>)>>, <<Element("e1", "B", "", <<>>)>>>>,
     <<<<>>, <<Element("e1", "A", "", <<>>)>>>>}

ComposerSlices ==
    {Slice("Collision", t, screens, c[1], c[2], <<>>, <<>>) :
        t \in {"STATE_CHANGE", "AUTOMATION"}, screens \in ComposerScreens,
        c \in ComposerSteps}
    \cup
    {Slice("Board", "STATE_VIEW", <<Element("s1", "A", "", <<Dep("READMODEL", "INBOUND", "r1")>>)>>,
           <<>>, <<>>, <<Element("r1", "A", "", <<>>)>>, <<>>)}

InitComposer == InitWith(GuardTexts \cup Documents(ComposerSlices))

SpecComposer == InitComposer /\ [][Next]_vars

-----------------------------------------------------------------------------
(* Repeated clicks: between two clicks the text of the input may change     *)

CallSlices ==
    {Slice("Orders To Prepare", "STATE_VIEW", <<>>, <<>>, <<>>, <<>>, <<>>),
     Slice("Receive Payment", "STATE_CHANGE", <<>>,
           <<Element("c1", "Receive Payment", "", <<>>)>>,
           <<Element("e1", "Payment Received", "EXTERNAL", <<>>)>>, <<>>, <<>>)}

CallTexts ==
    {Text(FALSE, "none", "none", <<>>), Text(TRUE, "null", "none", <<>>),
     Text(TRUE, "object", "absent", <<>>)}
    \cup Documents(CallSlices)

\* the handler has finished (or died); the text of jsonInput is replaced
\* before the next click
Edit ==
    /\ pc \in {"done", "raised", "renderRaised"}
    /\ calls < MaxCalls
    /\ jsonInput' \in CallTexts
    /\ pc' = "idle"
    /\ UNCHANGED <<calls, data, eventLookup, elementLookup, uniqueEventTitles,
                   uniqueExternalEventTitles, sliceSummaries, result, firstText,
                   firstResult>>

NextCalls == Next \/ Edit

InitCalls == InitWith(CallTexts)

SpecCalls == InitCalls /\ [][NextCalls]_vars

-----------------------------------------------------------------------------
(* Documents of behavioural specifications: steps with fields, with         *)
(* examples, with both and with neither                                     *)

\* a step is [title, type, fields, examples]; an absent list is <<>>
Step(title, type, fields, examples) ==
    [title |-> title, type |-> type, fields |-> fields, examples |-> examples]

Specification(title, given, when, then) ==
    [title |-> title, comments |-> <<>>, given |-> given, when |-> when, then |-> then]

FieldLists ==
    {<<>>,
     <<Field("id", JString("\"7\""))>>,
     <<Field("", JString("x")), Field("qty", Absent), Field("id", JNumber(7))>>,
     <<Field(Undefined, JString("x")), Field("", JNull)>>}

ExampleLists ==
    {<<>>,
     <<JObject(<<Member("id", JString("1")), Member("qty", JString("2"))>>)>>,
     <<JObject(<<Member("qty", JString("\"2\"")), Member("1", JNumber(5)),
                 Member("0", JNull)>>),
       JString("a \"b\""),
       JArray(<<JString("x"), JNumber(2)>>)>>,
     <<JObject(<<Member("id", JString("1")), Member("id", JString("2"))>>),
       JObject(<<>>)>>}

BddSteps ==
    {Step("an order", "SPEC_EVENT", fields, examples) :
        fields \in FieldLists, examples \in ExampleLists}

BddSlices ==
    {Slice("Place Order", "STATE_CHANGE", <<>>, <<>>, <<>>, <<>>,
           <<Specification("Order is placed", <<step>>, <<>>, <<>>)>>) : step \in BddSteps}
    \cup
    {Slice("Place Order", "STATE_CHANGE", <<>>, <<>>, <<>>, <<>>,
           <<Specification("Order is placed",
                           <<Step("an order", "SPEC_EVENT", FL, EL)>>,
                           <<Step("place", "SPEC_COMMAND", FL, <<>>)>>,
                           <<Step("placed", "SPEC_EVENT", FL, EL),
                             Step("listed", "SPEC_READMODEL", <<>>, EL)>>)>>) :
        FL \in {<<Field("id", JString("\"7\""))>>},
        EL \in {<<JObject(<<Member("id", JString("1")), Member("qty", JString("2"))>>)>>}}

InitBdd == InitWith(GuardTexts \cup Documents(BddSlices))

SpecBdd == InitBdd /\ [][Next]_vars

-----------------------------------------------------------------------------
(* Documents whose slices push flow warnings and conflict warnings: every   *)
(* slice, specification and step has a title of its own                     *)

WarnedSlices ==
    LET SomeFields == <<Field("id", JString("7"))>>
        SomeExamples == <<JObject(<<Member("id", JString("1"))>>)>>
        Both(title) == Step(title, "SPEC_EVENT", SomeFields, SomeExamples)
        FieldsOnly(title) == Step(title, "SPEC_COMMAND", SomeFields, <<>>)
    IN {Slice("Board", "STATE_VIEW", <<>>, <<>>, <<>>, <<>>,
              <<Specification("Board is shown", <<Both("a board")>>, <<FieldsOnly("show")>>,
                              <<Both("shown")>>),
                Specification("Board is hidden", <<>>, <<Both("hide")>>, <<>>)>>),
        Slice("Desk", "state_view", <<>>, <<>>, <<>>, <<>>,
              <<Specification("Desk is open", <<Both("a desk")>>, <<>>, <<>>)>>),
        Slice("Orders", "STATE_VIEW", <<>>, <<>>, <<>>,
              <<Element("r1", "Orders", "", <<>>)>>, <<>>),
        Slice("Place", "STATE_CHANGE", <<>>, <<>>, <<>>, <<>>,
              <<Specification("Order is placed", <<Both("an order")>>, <<Both("place")>>,
                              <<FieldsOnly("placed")>>)>>),
        Slice("Quiet", "STATE_CHANGE", <<>>, <<>>, <<>>, <<>>, <<>>)}

InitWarned == InitWith(GuardTexts \cup Documents(WarnedSlices))

SpecWarned == InitWarned /\ [][Next]_vars

-----------------------------------------------------------------------------
(* Documents for the summary: screens that share an id across slices and    *)
(* inside one, several commands, read models and specifications, and an     *)
(* external event that makes the handler append the simulator               *)

SummarySlices ==
    {Slice("Desk", "STATE_CHANGE",
           <<Element("s1", "Payment Form", "", <<>>)>>,
           <<Element("c1", "Receive Payment", "", <<>>),
             Element("c2", "Refund Payment", "", <<>>)>>,
           <<Element("e1", "Payment Received", "EXTERNAL", <<>>),
             Element("e2", "Payment Refunded", "", <<>>)>>,
           <<>>,
           <<Specification("Payment is received", <<>>, <<>>, <<>>)>>),
     Slice("Board", "STATE_VIEW",
           <<Element("s1", "Payment Form", "", <<>>),
             Element("s2", "Payment List", "", <<Dep("READMODEL", "INBOUND", "r1")>>)>>,
           <<>>, <<>>,
           <<Element("r1", "Payments", "", <<Dep("EVENT", "INBOUND", "e2")>>),
             Element("r2", "Refunds", "", <<>>)>>,
           <<>>),
     Slice("Twice", "STATE_CHANGE",
           <<Element("s2", "Payment List", "", <<>>), Element("s2", "Refund List", "", <<>>)>>,
           <<Element("c1", "Receive Payment", "", <<>>)>>, <<>>, <<>>,
           <<Specification("Payment is listed", <<>>, <<>>, <<>>),
             Specification("Refund is listed", <<>>, <<>>, <<>>)>>),
     Slice("Empty", "STATE_CHANGE", <<>>, <<>>, <<>>, <<>>, <<>>)}

InitSummary == InitWith(GuardTexts \cup Documents(SummarySlices))

SpecSummary == InitSummary /\ [][Next]_vars

-----------------------------------------------------------------------------
(* Documents whose elements share ids, and read models whose dependencies   *)
(* name events, other elements, ids no element carries and inherited names  *)

LookupChanges ==
    {Slice("Prepare Order", "STATE_CHANGE", <<>>,
           <<Element("c1", "Prepare Order", "", <<>>)>>,
           <<Element("e1", "Order Placed", "", <<>>),
             Element("e1", "Order Replaced", "", <<>>),
             Element("e2", "Order Prepared", "", <<>>)>>, <<>>, <<>>),
     Slice("Close Order", "STATE_CHANGE",
           <<Element("x1", "Closing Screen", "", <<>>)>>,
           <<Element("x1", "Close Order", "", <<>>)>>, <<>>, <<>>, <<>>),
     Slice("Amend Order", "STATE_CHANGE", <<>>,
           <<Element("e2", "Amend Order", "", <<>>)>>,
           <<Element("e1", "Order Amended", "", <<>>)>>, <<>>, <<>>)}

LookupDeps ==
    {<<Dep("EVENT", "INBOUND", "e1"), Dep("EVENT", "OUTBOUND", "e2")>>,
     <<Dep("EVENT", "INBOUND", "x1")>>,
     <<Dep("EVENT", "INBOUND", "e1"), Dep("EVENT", "OUTBOUND", "e9")>>,
     <<Dep("EVENT", "INBOUND", "constructor")>>,
     <<Dep("EVENT", "INBOUND", "e9"), Dep("EVENT", "OUTBOUND", "x1")>>}

LookupSlices ==
    LookupChanges
    \cup {Slice("Orders To Prepare", "STATE_VIEW", <<>>, <<>>, <<>>,
                <<Element("r1", "Orders", "", deps)>>, <<>>) : deps \in LookupDeps}

InitLookup == InitWith(GuardTexts \cup Documents(LookupSlices))

SpecLookup == InitLookup /\ [][Next]_vars

-----------------------------------------------------------------------------
(* Documents of state-view slices whose screens depend on the primary read  *)
(* model, on another read model, on no read model, or share an id           *)

ConsumerScreens ==
    {<<>>,
     <<Element("s1", "Order List", "", <<Dep("READMODEL", "INBOUND", "r1")>>)>>,
     <<Element("s1", "Order Card", "", <<Dep("READMODEL", "OUTBOUND", "r1")>>)>>,
     <<Element("s1", "Stock List", "", <<Dep("READMODEL", "INBOUND", "r2")>>)>>,
     <<Element("s1", "Stock Card", "", <<Dep("READMODEL", "OUTBOUND", "r2")>>)>>,
     <<Element("s1", "Event Log", "", <<Dep("EVENT", "INBOUND", "r1")>>)>>,
     <<Element("s1", "Home", "", <<>>)>>,
     <<Element("s1", "Order List", "", <<Dep("READMODEL", "INBOUND", "r1")>>),
       Element("s2", "Order Card", "", <<Dep("READMODEL", "OUTBOUND", "r1")>>)>>,
     <<Element("s1", "Order List", "", <<Dep("READMODEL", "INBOUND", "r1")>>),
       Element("s1", "Order List", "", <<Dep("READMODEL", "INBOUND", "r1")>>)>>}

ConsumerSlices ==
    {Slice("Order Board", "STATE_VIEW", screens, <<>>, <<>>,
           <<Element("r1", "Orders", "", <<>>)>>, <<>>) : screens \in ConsumerScreens}

InitConsumers == InitWith(GuardTexts \cup Documents(ConsumerSlices))

SpecConsumers == InitConsumers /\ [][Next]_vars

-----------------------------------------------------------------------------
(* Documents for the two-event pivot: a read model "Orders" fed by e1 and   *)
(* emptied by e2, with titles that contain one another                      *)

PivotEvents ==
    {<<Element("e1", "Order Placed", "", <<>>), Element("e2", "Order Prepared", "", <<>>)>>,
     <<Element("e1", "Orders Placed", "", <<>>), Element("e2", "Order Prepared", "", <<>>)>>,
     <<Element("e1", "Order Placed", "", <<>>), Element("e2", "Order", "", <<>>)>>,
     <<Element("e1", "Order Prepared Late", "", <<>>),
       Element("e2", "Order Prepared", "", <<>>)>>}

PivotScreens ==
    {<<>>,
     <<Element("s1", "Order List", "", <<Dep("READMODEL", "INBOUND", "r1")>>)>>}

PivotSlices ==
    {Slice("Prepare Order", "STATE_CHANGE", <<>>,
           <<Element("c1", "Prepare Order", "", <<>>)>>, evs, <<>>, <<>>) :
        evs \in PivotEvents}
    \cup
    {Slice("Order Board", "STATE_VIEW", screens, <<>>, <<>>,
           <<Element("r1", "Orders", "",
                     <<Dep("EVENT", "INBOUND", "e1"), Dep("EVENT", "OUTBOUND", "e2")>>)>>,
           <<>>) :
        screens \in PivotScreens}

InitPivot == InitWith(GuardTexts \cup Documents(PivotSlices))

SpecPivot == InitPivot /\ [][Next]_vars

-----------------------------------------------------------------------------
(* Documents of state-change slices: titles with and without the completion *)
(* words, in several cases, and external events                             *)

ChangeSteps ==
    {<<<<Element("c1", "Place Order", "", <<>>)>>,
       <<Element("e1", "Order Placed", "", <<>>)>>>>,
     <<<<Element("c1", "Mark Order", "", <<>>)>>,
       <<Element("e1", "Order Placed", "", <<>>), Element("e2", "Order PREPARED", "", <<>>)>>>>,
     <<<<Element("c1", "Complete Order", "", <<>>)>>,
       <<Element("e1", "Order Complete", "", <<>>)>>>>,
     <<<<>>,
       <<Element("e1", "Order Completed", "", <<>>), Element("e2", "Order Marked", "", <<>>)>>>>,
     <<<<Element("c1", "Receive Payment", "", <<>>)>>,
       <<Element("e1", "Payment Prepared", "EXTERNAL", <<>>)>>>>,
     <<<<Element("c1", "Receive Payment", "", <<>>)>>,
       <<Element("e1", "Payment Received", "EXTERNAL", <<>>)>>>>}

ChangeSlices ==
    {Slice("Order Desk", "STATE_CHANGE", screens, c[1], c[2], <<>>, <<>>) :
        screens \in {<<>>, <<Element("s1", "Order Form", "", <<>>)>>}, c \in ChangeSteps}

InitChange == InitWith(GuardTexts \cup Documents(ChangeSlices))

SpecChange == InitChange /\ [][Next]_vars

-----------------------------------------------------------------------------
(* Documents for the dispatch on sliceType: recognized and other types,     *)
(* events flagged external by a dependency or by their context              *)

DispatchTypes == {"STATE_CHANGE", "AUTOMATION", "state_view", "", Undefined}

DispatchContents ==
    {<<<<>>, <<>>, <<>>>>,
     <<<<Element("s1", "Order Form", "", <<>>)>>,
       <<Element("c1", "Import Order", "", <<>>)>>,
       <<Element("e1", "Order Prepared", "", <<>>),
         Element("e2", "Order Received", "", <<Dep("EXTERNAL", "EXTERNAL", "x1")>>)>>>>,
     <<<<>>,
       <<Element("c1", "Receive Payment", "", <<>>)>>,
       <<Element("e1", "Payment Received", "EXTERNAL", <<>>)>>>>}

DispatchSlices ==
    {Slice("Import", t, c[1], c[2], c[3], <<>>, <<>>) :
        t \in DispatchTypes, c \in DispatchContents}

InitDispatch == InitWith(GuardTexts \cup Documents(DispatchSlices))

SpecDispatch == InitDispatch /\ [][Next]_vars

-----------------------------------------------------------------------------
(* Error handling of the parse/shape guard *)

\* the text is no valid JSON, or parses to an object without a slices list
Malformed(text) == ~text.valid \/ (text.root = "object" /\ text.slicesKind # "list")

Returned == pc \in {"returned", "injected", "done", "renderRaised"}

\* C1: a text that is not valid JSON, or that parses to an object whose slices
\* field is missing or no list, makes interpretJson return a result with no
\* slices, an empty summary and exactly one warning, before any index is built
\* and before any slice is synthesized.
C1_MalformedShortCircuits ==
    (Malformed(jsonInput) /\ pc \notin {"idle", "parse"}) =>
        /\ Returned
        /\ result.slices = <<>>
        /\ result.summary = EmptySummary
        /\ Len(result.warnings) = 1
        /\ ~eventLookup.built
        /\ ~elementLookup.built
        /\ sliceSummaries = <<>>

C1_Witness ==
    /\ pc = "returned"
    /\ jsonInput.valid
    /\ jsonInput.root = "object"
    /\ jsonInput.slicesKind = "string"
    /\ Len(result.warnings) = 1

\* C2: interpretJson never raises: every root that is no object holding a slices
\* list yields the one-warning empty result, and once the guard has passed the
\* synthesis runs to the end and returns exactly one enriched slice per
\* document slice, whatever the slices and elements carry or omit.
C2_NeverRaises ==
    /\ pc # "raised"
    /\ (pc = "returned" /\ ~GuardPasses(jsonInput)) =>
            /\ result.slices = <<>>
            /\ Len(result.warnings) = 1
    /\ (pc = "returned" /\ GuardPasses(jsonInput)) =>
            Len(result.slices) = Len(jsonInput.slices)

-----------------------------------------------------------------------------
(* Counts of distinct events, the simulator slice, slice indexes *)

\* the events of the document, in document order
AllEvents(text) == FoldLeft(LAMBDA acc, slice : acc \o slice.events, <<>>, text.slices)

TitleSet(text, external) ==
    {AllEvents(text)[k].title : k \in
        {j \in 1..Len(AllEvents(text)) :
            (AllEvents(text)[j].context = "EXTERNAL") = external}}

\* C5: totalEvents is the number of distinct exact titles among the internal
\* events of all slices, totalExternalEvents the number of distinct exact titles
\* among the external events; a title occurring in two slices counts once,
\* whatever the ids of its events.
C5_DistinctTitleCounts ==
    (Returned /\ GuardPasses(jsonInput)) =>
        /\ result.summary.totalEvents = Cardinality(TitleSet(jsonInput, FALSE))
        /\ result.summary.totalExternalEvents = Cardinality(TitleSet(jsonInput, TRUE))

C5_Witness ==
    /\ pc = "returned"
    /\ Len(jsonInput.slices) = 2
    /\ \E x \in 1..Len(jsonInput.slices[1].events), y \in 1..Len(jsonInput.slices[2].events) :
          /\ jsonInput.slices[1].events[x].title = jsonInput.slices[2].events[y].title
          /\ jsonInput.slices[1].events[x].id # jsonInput.slices[2].events[y].id
          /\ jsonInput.slices[1].events[x].context = ""
          /\ jsonInput.slices[2].events[y].context = ""
    /\ result.summary.totalEvents = 1

\* the cleaned titles of the external events of the document, in document order
ExternalCleaned(text) ==
    LET ext == Filter(LAMBDA e : e.context = "EXTERNAL", AllEvents(text))
    IN [k \in 1..Len(ext) |-> Trim(ext[k].title)]

FirstIndex(seq, v) == CHOOSE k \in 1..Len(seq) : seq[k] = v /\ \A j \in 1..(k - 1) : seq[j] # v

IsSimulator(slice) == slice.title = "SIMULATION OF EXTERNAL EVENTS"

Simulators == {k \in 1..Len(result.slices) : IsSimulator(result.slices[k])}

\* C8: after interpretation and simulator synthesis the slice list holds exactly
\* one simulator slice when some slice declares an external event and none
\* otherwise; its external-events list holds each cleaned title exactly once,
\* in first-seen order across slices; it has one screen, one command and no
\* internal events, read models or behavioural specs.
C8_OneSimulator ==
    pc \in {"injected", "done"} =>
        LET ext == IF GuardPasses(jsonInput) THEN ExternalCleaned(jsonInput) ELSE <<>>
        IN /\ Cardinality(Simulators) = IF ext # <<>> THEN 1 ELSE 0
           /\ \A k \in Simulators :
                LET sim == result.slices[k]
                    list == Titles(sim.externalEvents)
                IN /\ \A a, b \in 1..Len(list) : list[a] = list[b] => a = b
                   /\ {list[a] : a \in 1..Len(list)} = {ext[a] : a \in 1..Len(ext)}
                   /\ \A a, b \in 1..Len(list) :
                        a < b => FirstIndex(ext, list[a]) < FirstIndex(ext, list[b])
                   /\ Len(sim.screens) = 1
                   /\ Len(sim.commands) = 1
                   /\ sim.events = <<>>
                   /\ sim.readmodels = <<>>
                   /\ sim.bddTests = <<>>

C8_Witness ==
    /\ pc = "done"
    /\ Len(jsonInput.slices) = 2
    /\ Titles(jsonInput.slices[1].events) = <<" A">>
    /\ Titles(jsonInput.slices[2].events) = <<"A">>
    /\ jsonInput.slices[1].events[1].context = "EXTERNAL"
    /\ jsonInput.slices[2].events[1].context = "EXTERNAL"
    /\ Cardinality(Simulators) = 1
    /\ \A k \in Simulators : Titles(result.slices[k].externalEvents) = <<"A">>

\* C9: the slice produced from the k-th document slice has index k and sits at
\* position k; a simulator slice, when present, is the last element and has
\* index N+1: the indexes of the list are 1, 2, ... in order.
C9_IndexIsPosition ==
    (Returned /\ GuardPasses(jsonInput)) =>
        LET N == Len(jsonInput.slices)
        IN /\ Len(result.slices) \in {N, N + 1}
           /\ \A k \in 1..Len(result.slices) : result.slices[k].index = k
           /\ \A k \in 1..N :
                /\ ~IsSimulator(result.slices[k])
                /\ result.slices[k].title = jsonInput.slices[k].title
                /\ Titles(result.slices[k].events) =
                     Titles(Filter(LAMBDA e : e.context # "EXTERNAL", jsonInput.slices[k].events))
                /\ Len(result.slices[k].externalEvents) =
                     Len(Filter(LAMBDA e : e.context = "EXTERNAL", jsonInput.slices[k].events))
           /\ Len(result.slices) = N + 1 => IsSimulator(result.slices[N + 1])

C9_Witness ==
    /\ pc = "done"
    /\ Len(jsonInput.slices) = 2
    /\ Len(result.slices) = 3
    /\ result.slices[3].index = 3
    /\ IsSimulator(result.slices[3])

-----------------------------------------------------------------------------
(* State-view slices and the visual flow *)

\* the document slices that passed through the synthesizer
Synthesized == IF Returned /\ GuardPasses(jsonInput) THEN 1..Len(jsonInput.slices) ELSE {}

\* slice k is a STATE_VIEW slice whose primary read model has resolved inbound
\* and resolved outbound events
TwoEvent(k) ==
    LET slice == jsonInput.slices[k]
    IN /\ HasView(slice)
       /\ inboundEvents(slice, eventLookup.entries, elementLookup.entries) # <<>>
       /\ outboundEvents(slice, eventLookup.entries, elementLookup.entries) # <<>>

Contains(seq, v) == \E i \in 1..Len(seq) : seq[i] = v

\* C3: for every STATE_VIEW slice whose primary read model has non-empty
\* resolved inbound and outbound event sets, visualFlow contains the
\* back-reference token as an element of its own, and a warning names the read
\* model with every inbound and every outbound event title.
C3_BackReferenceShown ==
    \A k \in Synthesized :
        TwoEvent(k) =>
            LET slice == jsonInput.slices[k]
                inb == inboundEvents(slice, eventLookup.entries, elementLookup.entries)
                outb == outboundEvents(slice, eventLookup.entries, elementLookup.entries)
            IN /\ Contains(result.slices[k].visualElements,
                           BackRefMarker \o Join(Titles(outb), ", "))
               /\ \E w \in 1..Len(result.warnings) :
                    /\ Includes(result.warnings[w], primaryReadModel(slice).title)
                    /\ \A i \in 1..Len(inb) : Includes(result.warnings[w], inb[i].title)
                    /\ \A i \in 1..Len(outb) : Includes(result.warnings[w], outb[i].title)

\* slice k is a STATE_VIEW slice that declares no read model
NoReadModel(k) ==
    jsonInput.slices[k].sliceType = "STATE_VIEW" /\ jsonInput.slices[k].readmodels = <<>>

\* C4: for every STATE_VIEW slice with zero read models a warning contains the
\* title of the slice, the flow of the slice is empty (no READMODEL step),
\* readmodelDetails is null, and the enriched slice is still emitted.
C4_NoReadModelWarned ==
    /\ \A k \in Synthesized :
        NoReadModel(k) =>
            /\ \E w \in 1..Len(result.warnings) :
                    /\ Includes(result.warnings[w], jsonInput.slices[k].title)
                    /\ Includes(result.warnings[w], "has no ReadModel defined")
            /\ result.slices[k].flow = <<>>
            /\ result.slices[k].readmodelDetails = NullDetails
            /\ result.slices[k].index = k
            /\ result.slices[k].title = jsonInput.slices[k].title
    /\ Synthesized # {} =>
        Cardinality({w \in 1..Len(result.warnings) :
                        Includes(result.warnings[w], "has no ReadModel defined")})
            = Cardinality({k \in Synthesized : NoReadModel(k)})

C4_Witness ==
    /\ pc = "returned"
    /\ GuardPasses(jsonInput)
    /\ Len(jsonInput.slices) = 2
    /\ NoReadModel(1)
    /\ jsonInput.slices[2].sliceType = "STATE_CHANGE"
    /\ Len(result.slices) = 2
    /\ Len(result.warnings) = 1

\* slice k went through the default composer: it is no STATE_VIEW slice with
\* the pattern flag set
DefaultPath(k) ==
    LET details == result.slices[k].readmodelDetails
    IN details = NullDetails \/ ~details.todoList

\* the titles of a list, each kept at its first occurrence only
FirstPerTitle(titles) ==
    LET first == SelectSeq([i \in 1..Len(titles) |-> i],
                           LAMBDA i : \A j \in 1..(i - 1) : titles[j] # titles[i])
    IN [n \in 1..Len(first) |-> titles[first[n]]]

\* C6 as stated: under the default composer visualFlow is the arrow-join of
\* the titles of the flow, each exact title kept at its first occurrence only.
C6_FirstOccurrenceOfEveryTitle ==
    \A k \in Synthesized :
        DefaultPath(k) =>
            result.slices[k].visualFlow =
                Join(FirstPerTitle(Titles(result.slices[k].flow)), Arrow)

\* C6: under the default composer visualFlow is the arrow-join of the
\* non-empty titles of the flow, each exact title kept at its first occurrence
\* only, whatever the types of the steps; steps whose title is empty or absent
\* are left out: a flow [SCREEN "A", COMMAND "B", EVENT "B"] yields "A" -> "B".
C6_FirstOccurrencePerTitle ==
    \A k \in Synthesized :
        DefaultPath(k) =>
            result.slices[k].visualFlow =
                Join(FirstPerTitle(SelectSeq(Titles(result.slices[k].flow), Truthy)), Arrow)

C6_Witness ==
    /\ pc = "returned"
    /\ GuardPasses(jsonInput)
    /\ Len(result.slices) = 1
    /\ jsonInput.slices[1].sliceType = "STATE_CHANGE"
    /\ Titles(result.slices[1].flow) = <<"A", "B", "B">>
    /\ Map(LAMBDA f : f.type, result.slices[1].flow) = <<"SCREEN", "COMMAND", "EVENT">>
    /\ result.slices[1].visualFlow = "A" \o Arrow \o "B"

IsBackRef(t) == Len(t) >= Len(BackRefMarker) /\ SubSeq(t, 1, Len(BackRefMarker)) = BackRefMarker

\* the forward-chain elements of a visual flow: all but the back-reference token
ForwardChain(elements) == SelectSeq(elements, LAMBDA t : ~IsBackRef(t))

\* C7: in the visualFlow of every slice, on the default path and on the pivot
\* path alike, no title occurs more than once among the forward-chain elements.
C7_ForwardTitlesUnique ==
    \A k \in Synthesized :
        LET chain == ForwardChain(result.slices[k].visualElements)
        IN \A a, b \in 1..Len(chain) : chain[a] = chain[b] => a = b

-----------------------------------------------------------------------------
(* Purity across calls *)

\* C10: the result of interpretJson depends on its text only: a call on the
\* text of the first completed call returns the result of that call (warnings
\* in order, summary, flows and visual flows), and every call starts from an
\* empty result, no lookup and empty title Sets, and builds its lookups from
\* its own document alone.
C10_ResultDependsOnTextOnly ==
    /\ (pc = "returned" /\ firstText.set /\ jsonInput = firstText.text) =>
            result = firstResult
    /\ pc = "parse" =>
            /\ result = NoResult
            /\ ~eventLookup.built /\ ~elementLookup.built
            /\ uniqueEventTitles = <<>> /\ uniqueExternalEventTitles = <<>>
            /\ sliceSummaries = <<>>
    /\ pc = "slices" =>
            /\ eventLookup.entries = buildEventLookup(jsonInput.slices)
            /\ elementLookup.entries = buildElementLookup(jsonInput.slices)

C10_Witness ==
    /\ pc = "returned"
    /\ calls = MaxCalls
    /\ jsonInput = firstText.text
    /\ Len(jsonInput.slices) = 2
    /\ Len(result.warnings) > 0
    /\ result.summary.totalExternalEvents = 1
    /\ result = firstResult

-----------------------------------------------------------------------------
(* Behavioural specifications *)

\* the steps of a specification or of a rendered test: given, when, then
StepsOf(spec) == spec.given \o spec.when \o spec.then

\* <<k, t, i>>: step i of specification t of the synthesized slice k
StepSites ==
    {<<k, t, i>> \in Synthesized \X (1..2) \X (1..4) :
        /\ t <= Len(jsonInput.slices[k].specifications)
        /\ i <= Len(StepsOf(jsonInput.slices[k].specifications[t]))}

DeclaredStep(site) == StepsOf(jsonInput.slices[site[1]].specifications[site[2]])[site[3]]

RenderedStep(site) == StepsOf(result.slices[site[1]].bddTests[site[2]])[site[3]]

Unquoted(v) == RemoveAll(String(v), "\"")

\* one example as a parenthesized group: the properties of an object in the
\* order the document lists them, any other value bare
ExampleGroup(example) ==
    IF example.kind = "object"
    THEN LET props == ParsedMembers(example.members)
         IN "(" \o Join([n \in 1..Len(props) |->
                            props[n].key \o "=" \o Unquoted(props[n].value)], ", ") \o ")"
    ELSE "(" \o Unquoted(example) \o ")"

\* C11: a step with a non-empty example list renders as one parenthesized
\* group per example, in order, joined by "; "; an object renders its
\* properties in order as key=value joined by ", ", any other example as its
\* bare value, double quotes removed from the stringified values.
C11_ExamplesRendered ==
    \A site \in StepSites :
        DeclaredStep(site).examples # <<>> =>
            RenderedStep(site).fields =
                Join([n \in 1..Len(DeclaredStep(site).examples) |->
                        ExampleGroup(DeclaredStep(site).examples[n])], "; ")

\* slice k has a step with both a non-empty field list and a non-empty
\* example list
Conflicting(site) ==
    DeclaredStep(site).fields # <<>> /\ DeclaredStep(site).examples # <<>>

\* the fields of a list that carry a non-empty name, in declared order
NamedFields(fields) == SelectSeq(fields, LAMBDA f : f.name # Undefined /\ f.name # "")

\* C12: a step without a non-empty example list renders its field list as
\* name=value entries joined by ", " in declared order, the value being the
\* example with double quotes removed (empty when absent); entries with an
\* empty name are omitted and no warning is pushed for them.
C12_FieldsRendered ==
    /\ \A site \in StepSites :
          (DeclaredStep(site).examples = <<>> /\ DeclaredStep(site).fields # <<>>) =>
              LET named == NamedFields(DeclaredStep(site).fields)
              IN RenderedStep(site).fields =
                    Join([n \in 1..Len(named) |->
                            named[n].name \o "=" \o
                            (IF named[n].example.kind \in {"absent", "null"} THEN ""
                             ELSE Unquoted(named[n].example))], ", ")
    /\ (Synthesized # {} /\ \A site \in StepSites : ~Conflicting(site)) =>
          result.warnings = <<>>

C12_Witness ==
    /\ pc = "returned"
    /\ \E site \in StepSites :
          /\ DeclaredStep(site).examples = <<>>
          /\ DeclaredStep(site).fields = <<Field("id", JString("\"7\""))>>
          /\ RenderedStep(site).fields = "id=7"
    /\ \E site \in StepSites :
          /\ DeclaredStep(site).examples = <<>>
          /\ Len(DeclaredStep(site).fields) = 3
          /\ DeclaredStep(site).fields[1].name = ""
          /\ RenderedStep(site).fields = "qty=, id=7"
    /\ result.warnings = <<>>

IsConflictWarning(w) == Includes(w, "has both 'fields' and 'examples'")

\* C13: a step with both a non-empty field list and a non-empty example list
\* renders exactly as its examples render, and one conflict warning is pushed
\* for it; steps with only one of the two lists push no conflict warning, so
\* the conflict warnings of a result are as many as its conflicting steps.
C13_ConflictWarned ==
    /\ \A site \in StepSites :
          Conflicting(site) =>
              /\ RenderedStep(site).fields =
                    formatReadModelExamples(DeclaredStep(site).examples)
              /\ RenderedStep(site).fields # formatFields(DeclaredStep(site).fields)
              /\ \E w \in 1..Len(result.warnings) :
                    /\ IsConflictWarning(result.warnings[w])
                    /\ Includes(result.warnings[w], DeclaredStep(site).title)
    /\ Synthesized # {} =>
          Cardinality({w \in 1..Len(result.warnings) : IsConflictWarning(result.warnings[w])})
              = Cardinality({site \in StepSites : Conflicting(site)})

C13_Witness ==
    /\ pc = "returned"
    /\ Len(jsonInput.slices) = 1
    /\ Cardinality(StepSites) = 4
    /\ Cardinality({site \in StepSites : Conflicting(site)}) = 2
    /\ \E site \in StepSites :
          DeclaredStep(site).fields # <<>> /\ DeclaredStep(site).examples = <<>>
    /\ \E site \in StepSites :
          DeclaredStep(site).fields = <<>> /\ DeclaredStep(site).examples # <<>>
    /\ Len(result.warnings) = 2
    /\ \A site \in StepSites :
          Conflicting(site) => RenderedStep(site).fields = "(id=1, qty=2)"

-----------------------------------------------------------------------------
(* Read model analysis *)

\* every element of the document, whatever its collection
AllElements(text) ==
    FoldLeft(LAMBDA acc, slice :
                acc \o slice.commands \o slice.events \o slice.readmodels \o slice.screens,
             <<>>, text.slices)

\* the events the event index holds: for each id the last event carrying it
HeldEvents(text) ==
    LET evs == AllEvents(text)
    IN {evs[j] : j \in {i \in 1..Len(evs) :
                           \A l \in (i + 1)..Len(evs) : evs[l].id # evs[i].id}}

\* ids of the EVENT dependencies of one direction a read model declares
DeclaredIds(rm, direction) ==
    {rm.dependencies[d].id : d \in
        {i \in 1..Len(rm.dependencies) :
            /\ rm.dependencies[i].elementType = "EVENT"
            /\ rm.dependencies[i].type = direction}}

\* ids of the held events that name the read model as OUTBOUND target
ReverseIds(text, rm) ==
    {e.id : e \in {h \in HeldEvents(text) :
        \E d \in 1..Len(h.dependencies) :
            /\ h.dependencies[d].elementType = "READMODEL"
            /\ h.dependencies[d].type = "OUTBOUND"
            /\ h.dependencies[d].id = rm.id}}

InboundIdSet(k) ==
    DeclaredIds(primaryReadModel(jsonInput.slices[k]), "INBOUND")
    \cup ReverseIds(jsonInput, primaryReadModel(jsonInput.slices[k]))

OutboundIdSet(k) == DeclaredIds(primaryReadModel(jsonInput.slices[k]), "OUTBOUND")

\* the ids of a set that some element of the document carries
ResolvedIds(ids) ==
    {id \in ids : \E n \in 1..Len(AllElements(jsonInput)) : AllElements(jsonInput)[n].id = id}

\* the synthesized STATE_VIEW slices that have a primary read model
Views == {k \in Synthesized : HasView(jsonInput.slices[k])}

ReadModelStep(k) ==
    SelectSeq(result.slices[k].flow, LAMBDA f : f.type = "READMODEL")

\* C14: for every STATE_VIEW slice with a primary read model the pattern flag,
\* the TODO marker of the read model step and its two-event description are
\* set exactly when the resolved inbound-event set and the resolved
\* outbound-event set are both non-empty.
C14_PatternFlagIffBothSets ==
    \A k \in Views :
        LET both == ResolvedIds(InboundIdSet(k)) # {} /\ ResolvedIds(OutboundIdSet(k)) # {}
            rm == primaryReadModel(jsonInput.slices[k])
            step == ReadModelStep(k)
        IN /\ result.slices[k].readmodelDetails.todoList = both
           /\ Len(step) = 1
           /\ step[1].title = IF both THEN TodoMarker \o rm.title ELSE rm.title
           /\ (step[1].description = "State projection / **TODO list (Two-event pattern)**")
                 = both

C14_Witness ==
    /\ pc = "returned"
    /\ Len(jsonInput.slices) = 2
    /\ Views = {2}
    /\ ResolvedIds(InboundIdSet(2)) = {"e1"}
    /\ ResolvedIds(OutboundIdSet(2)) = {"e2"}
    /\ result.slices[2].readmodelDetails.todoList
    /\ ReadModelStep(2)[1].title = "**TODO:** Orders"

Range(seq) == {seq[n] : n \in 1..Len(seq)}

\* C15: the inbound-event id set of the primary read model of a STATE_VIEW
\* slice is the union of the ids it declares as INBOUND EVENT dependencies and
\* of the ids of the events held in the event index that name it as target of
\* an OUTBOUND READMODEL dependency; its outbound-event id set is the ids it
\* declares as OUTBOUND EVENT dependencies.  The resolved events counted and
\* listed in readmodelDetails are those of the two sets.
C15_InboundIsDeclaredPlusReverse ==
    \A k \in Views :
        LET rm == primaryReadModel(jsonInput.slices[k])
            details == result.slices[k].readmodelDetails
        IN /\ Range(inboundEventIds(rm, eventLookup.entries)) = InboundIdSet(k)
           /\ Range(outboundEventIds(rm)) = OutboundIdSet(k)
           /\ details.totalInboundEvents = Cardinality(ResolvedIds(InboundIdSet(k)))
           /\ details.totalOutboundEvents = Cardinality(ResolvedIds(OutboundIdSet(k)))

C15_Witness ==
    /\ pc = "returned"
    /\ Len(jsonInput.slices) = 2
    /\ Views = {2}
    /\ DeclaredIds(primaryReadModel(jsonInput.slices[2]), "INBOUND") = {}
    /\ ReverseIds(jsonInput, primaryReadModel(jsonInput.slices[2])) = {"e2"}
    /\ OutboundIdSet(2) = {"e2"}
    /\ result.slices[2].readmodelDetails.totalInboundEvents = 1
    /\ result.slices[2].readmodelDetails.inboundEvents = "Order Prepared"

-----------------------------------------------------------------------------
(* Lookup tables and resolution *)

\* the last element of a list that carries the id
LastWith(seq, id) ==
    seq[CHOOSE n \in 1..Len(seq) :
            seq[n].id = id /\ \A l \in (n + 1)..Len(seq) : seq[l].id # id]

Ids(seq) == {seq[n].id : n \in 1..Len(seq)}

\* both tables exist: the guard has passed and the lookups are built
Indexed == GuardPasses(jsonInput) /\ eventLookup.built /\ elementLookup.built

\* C16: both lookup tables are last-wins: the event index maps every id to the
\* last event carrying it in document order, the element index to the last
\* element carrying it in scan order (slices in order; commands, events, read
\* models, screens); ids nothing carries have no entry, and a repeated id
\* raises no error.
C16_LookupsLastWins ==
    /\ Indexed =>
          /\ Ids(eventLookup.entries) = Ids(AllEvents(jsonInput))
          /\ \A id \in Ids(AllEvents(jsonInput)) :
                LookupGet(eventLookup.entries, id) = LastWith(AllEvents(jsonInput), id)
          /\ Ids(elementLookup.entries) = Ids(AllElements(jsonInput))
          /\ \A id \in Ids(AllElements(jsonInput)) :
                LookupGet(elementLookup.entries, id) = LastWith(AllElements(jsonInput), id)
    /\ GuardPasses(jsonInput) => pc # "raised"

C16_Witness ==
    /\ pc = "returned"
    /\ Len(jsonInput.slices) = 2
    /\ Titles(jsonInput.slices[1].events) = <<"Order Placed", "Order Replaced", "Order Prepared">>
    /\ Views = {2}
    /\ LookupGet(eventLookup.entries, "e1").title = "Order Replaced"
    /\ result.slices[2].readmodelDetails.inboundEvents = "Order Replaced"

\* what an id stands for: the last event that carries it and, when no event
\* does, the last element of the scan that carries it
TargetOf(id) ==
    IF id \in Ids(AllEvents(jsonInput)) THEN LastWith(AllEvents(jsonInput), id)
    ELSE LastWith(AllElements(jsonInput), id)

\* the titles of the ids of a list that some element carries, in list order
ResolvedTitles(ids) ==
    LET found == SelectSeq(ids, LAMBDA id : id \in Ids(AllElements(jsonInput)))
    IN [n \in 1..Len(found) |-> TargetOf(found[n]).title]

\* C17: every id of the inbound and outbound sets is resolved through the
\* event index first and through the element index only when the event index
\* has no entry; an id found in neither index contributes no FlowStep, no
\* title in readmodelDetails, nothing to the counts and no warning.
C17_UnresolvedIdsDropped ==
    \A k \in Views :
        LET rm == primaryReadModel(jsonInput.slices[k])
            inb == ResolvedTitles(inboundEventIds(rm, eventLookup.entries))
            outb == ResolvedTitles(outboundEventIds(rm))
            details == result.slices[k].readmodelDetails
            steps == SelectSeq(result.slices[k].flow, LAMBDA f : f.type = "EVENT")
        IN /\ details.inboundEvents = OrNone(Join(inb, ", "))
           /\ details.outboundEvents = OrNone(Join(outb, ", "))
           /\ details.totalInboundEvents = Len(inb)
           /\ details.totalOutboundEvents = Len(outb)
           /\ Titles(steps) = inb \o (IF inb # <<>> /\ outb # <<>> THEN outb ELSE <<>>)
           /\ (\E w \in 1..Len(result.warnings) :
                    Includes(result.warnings[w], "has no inbound events")) <=>
              (\E j \in Views :
                    ResolvedTitles(inboundEventIds(primaryReadModel(jsonInput.slices[j]),
                                                   eventLookup.entries)) = <<>>)

-----------------------------------------------------------------------------
(* Consumer screens *)

\* the screens of slice k that have a READMODEL dependency whose target is
\* the primary read model
DependentScreens(k) ==
    SelectSeq(jsonInput.slices[k].screens,
              LAMBDA scr : \E d \in 1..Len(scr.dependencies) :
                    /\ scr.dependencies[d].elementType = "READMODEL"
                    /\ scr.dependencies[d].id = primaryReadModel(jsonInput.slices[k]).id)

\* C18: in a STATE_VIEW slice every screen listed as consumer of the primary
\* read model (SCREEN FlowSteps, readmodelDetails.consumer) is a screen of the
\* slice with a READMODEL dependency on that read model, and no screen id is
\* listed twice.
C18_ConsumersDependOnReadModel ==
    \A k \in Views :
        LET listed == Titles(SelectSeq(result.slices[k].flow, LAMBDA f : f.type = "SCREEN"))
            dependent == DependentScreens(k)
        IN /\ \A n \in 1..Len(listed) : listed[n] \in Range(Titles(dependent))
           /\ Len(listed) <= Cardinality(Ids(dependent))
           /\ result.slices[k].readmodelDetails.consumer = OrNone(Join(listed, ", "))

-----------------------------------------------------------------------------
(* The two-event pivot *)

\* the synthesized slices composed on the pivot path
Pivots == {k \in Views : result.slices[k].readmodelDetails.todoList}

\* the titles of the flow steps of one type of slice k
StepTitles(k, type) ==
    Titles(SelectSeq(result.slices[k].flow, LAMBDA f : f.type = type))

\* the completion-event titles of slice k: its resolved outbound events
CompletionTitles(k) == Range(ResolvedTitles(outboundEventIds(primaryReadModel(jsonInput.slices[k]))))

\* the positions of visualFlow that hold a back-reference token
TokenPositions(k) ==
    {p \in 1..Len(result.slices[k].visualElements) :
        IsBackRef(result.slices[k].visualElements[p])}

\* C19: on the pivot path the back-reference token comes immediately after
\* the read model's own element: visualFlow is pre, read model, token, post,
\* pre holding inbound-event titles and post consumer-screen titles; the token
\* follows no other element.
C19_TokenFollowsReadModel ==
    \A k \in Pivots :
        LET elements == result.slices[k].visualElements
            rmTitle == TodoMarker \o primaryReadModel(jsonInput.slices[k]).title
            inb == ResolvedTitles(inboundEventIds(primaryReadModel(jsonInput.slices[k]),
                                                  eventLookup.entries))
        IN \A p \in TokenPositions(k) :
              /\ TokenPositions(k) = {p}
              /\ p > 1
              /\ elements[p - 1] = rmTitle
              /\ \A j \in 1..(p - 2) : elements[j] \in Range(inb)
              /\ \A j \in (p + 1)..Len(elements) :
                    elements[j] \in Range(StepTitles(k, "SCREEN"))

\* C20: on the pivot path the forward list leaves out exactly the flow steps
\* whose title is a completion-event title: every other flow step with a
\* non-empty title is an element of visualFlow, and no completion-event title
\* is an element other than inside the back-reference token.
C20_OnlyCompletionTitlesExcluded ==
    \A k \in Pivots :
        LET chain == ForwardChain(result.slices[k].visualElements)
            flow == result.slices[k].flow
        IN /\ \A n \in 1..Len(flow) :
                (Truthy(flow[n].title) /\ flow[n].title \notin CompletionTitles(k)) =>
                    flow[n].title \in Range(chain)
           /\ \A n \in 1..Len(chain) : chain[n] \notin CompletionTitles(k)

-----------------------------------------------------------------------------
(* State-change slices *)

Changes == {k \in Synthesized : jsonInput.slices[k].sliceType = "STATE_CHANGE"}

\* the title contains the word, whatever the case of its letters
ContainsWord(title, word) == Includes(ToLowerCase(title), word)

\* some command or event title of slice k contains a completion word
CompletionSlice(k) ==
    \E title \in Range(Titles(jsonInput.slices[k].commands))
                 \cup Range(Titles(jsonInput.slices[k].events)) :
        \E word \in {"prepared", "mark", "complete"} : ContainsWord(title, word)

\* the event is shown as a completion event in slice k
ShownAsCompletion(k, event) ==
    /\ CompletionSlice(k)
    /\ ContainsWord(event.title, "prepared") \/ ContainsWord(event.title, "completed")

CompletionTitle(title) == "**" \o title \o " (Completes To-Do List Item)**"

CompletionDescription == "Completion event - marks item as done"

\* the flow of the state-change slice k, given the title an event is shown with
ChangeFlowOf(k, Shown(_)) ==
    LET slice == jsonInput.slices[k]
    IN [n \in 1..Len(slice.screens) |->
            FlowStep("SCREEN", slice.screens[n].title, "User interface")]
       \o [n \in 1..Len(slice.commands) |->
            FlowStep("COMMAND", slice.commands[n].title, "Command executed")]
       \o [n \in 1..Len(slice.events) |->
            IF ShownAsCompletion(k, slice.events[n])
            THEN FlowStep("EVENT", CompletionTitle(Shown(slice.events[n])),
                          CompletionDescription)
            ELSE FlowStep("EVENT", Shown(slice.events[n]), "Event triggered")]

\* the title of an event with the marker of its external context
MarkedTitle(event) ==
    IF event.context = "EXTERNAL" THEN ExternalMarker \o event.title ELSE event.title

\* C21 as stated: the flow of a STATE_CHANGE slice is its screens, commands
\* and events in declaration order; an event is annotated as completion event
\* exactly when the slice is a completion slice and its own title contains
\* "prepared" or "completed"; every other FlowStep keeps its declared title.
C21_DeclaredTitlesKept ==
    \A k \in Changes :
        result.slices[k].flow = ChangeFlowOf(k, LAMBDA event : event.title)

\* C21: the flow of a STATE_CHANGE slice is its screens, commands and events
\* in declaration order; an event is annotated as completion event, with the
\* fixed completion description, exactly when the slice is a completion slice
\* and its own title contains "prepared" or "completed"; every other FlowStep
\* keeps its title, the title of an event of EXTERNAL context being its
\* declared title behind the external marker.
C21_ChangeFlow ==
    \A k \in Changes : result.slices[k].flow = ChangeFlowOf(k, MarkedTitle)

C21_Witness ==
    /\ pc = "returned"
    /\ Changes = {1, 2}
    /\ Titles(result.slices[1].flow) =
          <<"Order Form", "Mark Order", "Order Placed",
            "**Order PREPARED (Completes To-Do List Item)**">>
    /\ result.slices[1].flow[4].description = CompletionDescription
    /\ Titles(result.slices[2].flow) = <<"Complete Order", "Order Complete">>

-----------------------------------------------------------------------------
(* Dispatch on sliceType *)

Automations == {k \in Synthesized : jsonInput.slices[k].sliceType = "AUTOMATION"}

\* the event has a dependency of type EXTERNAL
FlaggedExternal(event) ==
    \E d \in 1..Len(event.dependencies) : event.dependencies[d].type = "EXTERNAL"

\* the type and title of every step of a flow
Outline(flow) == [n \in 1..Len(flow) |-> <<flow[n].type, flow[n].title>>]

IsUnknownTypeWarning(w) == Includes(w, "unhandled sliceType")

\* C22: for every slice of type AUTOMATION the flow lists the events flagged
\* EXTERNAL in their dependencies, with the external annotation, then the
\* commands, then the other events, each group in declaration order; one
\* informational warning names the slice as automation slice and no
\* unknown-type warning is pushed for it.
C22_AutomationFlow ==
    /\ \A k \in Automations :
          LET slice == jsonInput.slices[k]
              first == SelectSeq(slice.events, FlaggedExternal)
              last == SelectSeq(slice.events, LAMBDA e : ~FlaggedExternal(e))
          IN Outline(result.slices[k].flow) =
                [n \in 1..Len(first) |-> <<"EVENT", ExternalMarker \o first[n].title>>]
                \o [n \in 1..Len(slice.commands) |-> <<"COMMAND", slice.commands[n].title>>]
                \o [n \in 1..Len(last) |-> <<"EVENT", last[n].title>>]
    /\ Automations # {} =>
          /\ Cardinality({w \in 1..Len(result.warnings) :
                            /\ Includes(result.warnings[w], "AUTOMATION")
                            /\ ~IsUnknownTypeWarning(result.warnings[w])})
                = Cardinality(Automations)
          /\ \A w \in 1..Len(result.warnings) :
                ~(IsUnknownTypeWarning(result.warnings[w])
                  /\ Includes(result.warnings[w], "AUTOMATION"))

\* the synthesized slices whose sliceType is none of the recognized literals
Unknowns ==
    {k \in Synthesized :
        jsonInput.slices[k].sliceType \notin {"STATE_VIEW", "STATE_CHANGE", "AUTOMATION"}}

\* C23: dispatch on sliceType is an exact, case-sensitive match: every slice
\* whose sliceType is absent, empty, differently cased or otherwise
\* unrecognized goes through the UNKNOWN branch, and for every such slice,
\* one without sliceType included, a warning citing the unrecognized type is
\* pushed.
C23_UnknownTypeWarned ==
    /\ \A k \in Unknowns :
          Len(result.slices[k].flow) =
              Len(jsonInput.slices[k].screens) + Len(jsonInput.slices[k].commands)
              + Len(jsonInput.slices[k].events)
    /\ Synthesized # {} =>
          Cardinality({w \in 1..Len(result.warnings) :
                          /\ IsUnknownTypeWarning(result.warnings[w])
                          /\ ~Includes(result.warnings[w], "AUTOMATION")})
              = Cardinality(Unknowns)

\* the flow of the UNKNOWN branch for slice k, given the title an event is
\* shown with
UnknownFlowOf(k, Shown(_)) ==
    LET slice == jsonInput.slices[k]
    IN [n \in 1..Len(slice.screens) |-> FlowStep("SCREEN", slice.screens[n].title, "")]
       \o [n \in 1..Len(slice.commands) |-> FlowStep("COMMAND", slice.commands[n].title, "")]
       \o [n \in 1..Len(slice.events) |-> FlowStep("EVENT", Shown(slice.events[n]), "")]

\* C24 as stated: in the UNKNOWN branch the flow is screens, commands, events
\* in declaration order, every title being the declared title without any
\* marker, external events included; no elements give an empty flow and an
\* empty visualFlow.
C24_UnknownFlowUnmarked ==
    \A k \in Unknowns :
        /\ result.slices[k].flow = UnknownFlowOf(k, LAMBDA event : event.title)
        /\ result.slices[k].flow = <<>> => result.slices[k].visualFlow = ""

\* C24: in the UNKNOWN branch the flow is screens, commands, events in
\* declaration order; screens, commands and events keep their declared
\* titles, no completion annotation is added, and an event of EXTERNAL context
\* has its declared title behind the external marker; no elements give an
\* empty flow and an empty visualFlow.
C24_UnknownFlow ==
    \A k \in Unknowns :
        /\ result.slices[k].flow = UnknownFlowOf(k, MarkedTitle)
        /\ result.slices[k].flow = <<>> => result.slices[k].visualFlow = ""

C24_Witness ==
    /\ pc = "returned"
    /\ Unknowns = {1, 2}
    /\ jsonInput.slices[1].sliceType = "state_view"
    /\ Outline(result.slices[1].flow) =
          <<<<"SCREEN", "Order Form">>, <<"COMMAND", "Import Order">>,
            <<"EVENT", "Order Prepared">>, <<"EVENT", "Order Received">>>>
    /\ result.slices[2].flow = <<>>
    /\ result.slices[2].visualFlow = ""

-----------------------------------------------------------------------------
(* Order of the warnings *)

\* how many warnings the flow synthesis of slice k pushes
FlowWarningCount(k) ==
    LET slice == jsonInput.slices[k]
        details == result.slices[k].readmodelDetails
    IN IF slice.sliceType = "STATE_VIEW"
       THEN IF slice.readmodels = <<>> THEN 1
            ELSE (IF details.todoList THEN 1 ELSE 0)
                 + (IF details.totalInboundEvents = 0 THEN 1 ELSE 0)
       ELSE IF slice.sliceType = "STATE_CHANGE" THEN 0
       ELSE IF Truthy(slice.sliceType) THEN 1 ELSE 0

\* the places of slice k a warning comes from, in the order the claim gives:
\* the flow synthesis, then the conflicting steps by specification and by
\* given, when, then
WarningOrigins(k) ==
    LET slice == jsonInput.slices[k]
    IN [n \in 1..FlowWarningCount(k) |-> [conflict |-> FALSE, cites |-> "\"" \o slice.title \o "\""]]
       \o FoldLeft(LAMBDA acc, spec :
                      LET both == SelectSeq(StepsOf(spec),
                                            LAMBDA st : st.fields # <<>> /\ st.examples # <<>>)
                      IN acc \o [n \in 1..Len(both) |->
                                   [conflict |-> TRUE,
                                    cites |-> "\"" \o spec.title \o "\" step '"
                                              \o both[n].title \o "'"]],
                   <<>>, slice.specifications)

AllWarningOrigins ==
    FoldLeft(LAMBDA acc, k : acc \o WarningOrigins(k), <<>>,
             [k \in 1..Len(jsonInput.slices) |-> k])

\* C25: result.warnings lists the warnings in detection order: those of an
\* earlier slice before those of a later one, within a slice those of the
\* flow synthesis before the conflict warnings, and the conflict warnings by
\* specification and, within one, by given, when, then.
C25_WarningsInDetectionOrder ==
    Synthesized # {} =>
        /\ Len(result.warnings) = Len(AllWarningOrigins)
        /\ \A n \in 1..Len(result.warnings) :
              /\ IsConflictWarning(result.warnings[n]) = AllWarningOrigins[n].conflict
              /\ Includes(result.warnings[n], AllWarningOrigins[n].cites)

C25_Witness ==
    /\ pc = "returned"
    /\ Len(jsonInput.slices) = 2
    /\ jsonInput.slices[1].title = "Place"
    /\ jsonInput.slices[2].title = "Board"
    /\ Len(result.warnings) = 6
    /\ Includes(result.warnings[1], "step 'an order'")
    /\ Includes(result.warnings[2], "step 'place'")
    /\ result.warnings[3] = "STATE_VIEW slice \"Board\" has no ReadModel defined."
    /\ Includes(result.warnings[4], "\"Board is shown\" step 'a board'")
    /\ Includes(result.warnings[5], "\"Board is shown\" step 'shown'")
    /\ Includes(result.warnings[6], "\"Board is hidden\" step 'hide'")

-----------------------------------------------------------------------------
(* Summary *)

\* <<k, i>>: element i of the collection of slice k of the document
Declared(Collection(_)) ==
    {<<k, i>> \in (1..Len(jsonInput.slices)) \X (1..4) :
        i <= Len(Collection(jsonInput.slices[k]))}

ScreenIds ==
    {jsonInput.slices[site[1]].screens[site[2]].id :
        site \in Declared(LAMBDA slice : slice.screens)}

\* C26: totalSlices is the number of slices of the document, totalCommands,
\* totalReadModels and totalSpecifications are the sums of the lengths of the
\* lists, totalScreens is the number of distinct screen ids, and sliceDetails
\* holds the enriched slices of the document in order; appending the simulator
\* changes none of them and the simulator is never in sliceDetails.
C26_SummaryCounts ==
    Synthesized # {} =>
        LET summary == result.summary
            N == Len(jsonInput.slices)
        IN /\ summary.totalSlices = N
           /\ summary.totalCommands = Cardinality(Declared(LAMBDA slice : slice.commands))
           /\ summary.totalReadModels = Cardinality(Declared(LAMBDA slice : slice.readmodels))
           /\ summary.totalSpecifications =
                 Cardinality(Declared(LAMBDA slice : slice.specifications))
           /\ summary.totalScreens = Cardinality(ScreenIds)
           /\ Len(summary.sliceDetails) = N
           /\ \A k \in 1..N :
                 /\ summary.sliceDetails[k] = result.slices[k]
                 /\ summary.sliceDetails[k].index = k
                 /\ summary.sliceDetails[k].title = jsonInput.slices[k].title
                 /\ ~IsSimulator(summary.sliceDetails[k])

C26_Witness ==
    /\ pc = "injected"
    /\ Simulators = {3}
    /\ jsonInput.slices[1].title = "Desk"
    /\ jsonInput.slices[2].title = "Twice"
    /\ result.summary.totalSlices = 2
    /\ result.summary.totalCommands = 3
    /\ result.summary.totalSpecifications = 3
    /\ result.summary.totalReadModels = 0
    /\ result.summary.totalScreens = 2
    /\ Len(result.summary.sliceDetails) = 2

-----------------------------------------------------------------------------
(* Field lists without a named entry *)

\* C27: a step without a non-empty example list renders as "(none)" whenever
\* its field list is absent, empty or holds only entries with an empty name;
\* the rendered fields string is never empty.
C27_NoneWithoutNamedField ==
    \A site \in StepSites :
        /\ (DeclaredStep(site).examples = <<>>
            /\ NamedFields(DeclaredStep(site).fields) = <<>>) =>
              RenderedStep(site).fields = "(none)"
        /\ RenderedStep(site).fields # ""

-----------------------------------------------------------------------------
(* The inbound warning *)

\* the resolved inbound-event set of the view slice k is empty
NoInbound(k) == ResolvedIds(InboundIdSet(k)) = {}

\* how many warnings of result.warnings contain the text
WarningsWith(text) ==
    Cardinality({w \in 1..Len(result.warnings) : Includes(result.warnings[w], text)})

-----------------------------------------------------------------------------
(* The simulator and the external-event count *)

\* C29: when the handler appends the simulator, the simulator lists as many
\* external events as summary.totalExternalEvents counts; when it appends
\* none, totalExternalEvents is 0.
C29_SimulatorMatchesCount ==
    (pc \in {"injected", "done", "renderRaised"} /\ GuardPasses(jsonInput)) =>
        /\ \A k \in Simulators :
              Len(result.slices[k].externalEvents) = result.summary.totalExternalEvents
        /\ Simulators = {} => result.summary.totalExternalEvents = 0

-----------------------------------------------------------------------------
(* Event steps of a state view *)

\* C30: in the flow of a STATE_VIEW slice every EVENT step comes from an
\* element some slice of the document declares as an event: no command,
\* screen or read model is shown as an EVENT step, whatever element carries
\* the id a dependency of the read model names.
C30_EventStepsAreEvents ==
    \A k \in Views :
        \A t \in Range(StepTitles(k, "EVENT")) :
            t \in Range(Titles(AllEvents(jsonInput)))

====
